---------------------------- MODULE Spec2Model ----------------------------
(***************************************************************************)
(* A model of the player_stats.json builders of SpotstatsAi:               *)
(*   src/build_player_stats_with_matchups.py          (the root builder)   *)
(*   src/scripts/build_player_stats_with_matchups.py  (the scoring builder)*)
(*   src/scripts/build_player_stats_bdl.py            (the BallDontLie one)*)
(*   src/scripts/build_player_stats_sradar.py         (build_opponent_map) *)
(*                                                                         *)
(* Python values are modelled uniformly as records [k, n, d]:              *)
(*   k = "num"    the number n/d (an exact rational, d > 0, lowest terms)  *)
(*   k = "none"   None (a JSON null)                                       *)
(*   k = "absent" the key is not in the dict                               *)
(*   k = "str"    a string that is not a number                            *)
(*   k = "nstr"   a string that float() parses, of value n/d               *)
(*   k = "err"    the evaluation raised (TypeError, ZeroDivisionError)     *)
(* Floating point is modelled by exact rational arithmetic; the square     *)
(* root of std() is taken to 1/Prec, and round(x, 2) of a double that a    *)
(* rounding error has moved off an exact half goes to either neighbour.    *)
(***************************************************************************)
EXTENDS Integers, Sequences, FiniteSets, TLC

VARIABLES
    team_stats,      \* build_team_defense_table: its argument
    defense_table,   \* build_team_defense_table: its result
    def_pc,          \* "input" before the call, "built" after it, "off" elsewhere
    games_today,     \* the day's games an opponent map is built from
    opponent_map,    \* the opponent map built, and whether building it raised
    opp_pc,          \* "input", then the builder that ran: "root", "sradar", "scripts"
    sc_in,           \* one pass of the player loop: what the lookups hold for the player
    sc_out,          \* the result of the pass
    sc_pc,           \* "input" before the pass, "scored" after it
    wn_in,           \* the game logs of one player, in the order of the source
    wn_out,          \* the sorted logs, the window and its averages and scores
    wn_pc,           \* "input", then "done"
    tr_in,           \* trend_label: its arguments last5_val and season_val
    tr_out,          \* trend_label: the label returned
    tr_pc,           \* "input", then "labelled"
    shift,           \* the constant added to every metric of team_stats
    shifted_table,   \* build_team_defense_table: its result for the shifted rows
    builder,         \* a run of main: the builder, "scripts", "root" or "bdl"
    io,              \* root main: what opening each file and each fetch does
    rosters,         \* rosters.json: the teams and their players, in file order
    season_stats,    \* the season rows fetched (bdl: the rows resolved per player)
    game_logs,       \* scripts: the game logs fetched
    standings,       \* scripts: the standings fetched
    lookups,         \* what main builds before the player loop: scripts
                     \* season_by_name, logs_by_name, opponents, team_info,
                     \* def_rank, avg_pf; root player_lookup, defense_table,
                     \* opponent_map; bdl opponent_map
    todo,            \* the roster entries the player loop has still to do
    last_pass,       \* the entry and the local variables of the last pass of the loop
    final,           \* final, the output map under construction
    player_stats_json, \* the contents written to player_stats.json, in order
    run_pc,          \* "start", "loop", "done", "failed", "fetch_failed"; "off" elsewhere
    responses,       \* fetch_nba_json, sr_get: what the server does with each request
    attempt,         \* the loop variable of the retry loop
    sent,            \* the requests sent so far
    outcome,         \* what the call returned or raised, and from where
    http_pc,         \* "loop", then "returned" or "raised"
    pages,           \* fetch_rosters_from_bdl: the pages /players answers with
    page,            \* the page parameter of the next request
    requested,       \* the requests made so far
    bdl_rosters,     \* the rosters under construction, then returned
    pg_pc,           \* "loop", then "returned"
    us_rows,         \* parse_advanced_usage: the rows of the advanced table
    us_reordered,    \* the same rows in another order
    us_out,          \* usage_by_name for the rows and for the reordered rows
    us_pc,           \* "input", then "parsed"
    raw_schedule,    \* build_master_schedule: the games of the feeds
    schedule_master, \* the games written to schedule_master.json
    sch_pc           \* "input", then "sportradar" or "nba"

defVars == <<team_stats, defense_table, def_pc>>
oppVars == <<games_today, opponent_map, opp_pc>>
scoreVars == <<sc_in, sc_out, sc_pc>>
windowVars == <<wn_in, wn_out, wn_pc>>
trendVars == <<tr_in, tr_out, tr_pc>>
shiftVars == <<shift, shifted_table>>
runInputs == <<builder, io, rosters, season_stats, game_logs, standings>>
runLoop == <<todo, last_pass, final>>
runVars == <<runInputs, lookups, runLoop, player_stats_json, run_pc>>
httpVars == <<responses, attempt, sent, outcome, http_pc>>
pageVars == <<pages, page, requested, bdl_rosters, pg_pc>>
usageVars == <<us_rows, us_reordered, us_out, us_pc>>
schedVars == <<raw_schedule, schedule_master, sch_pc>>
toolVars == <<httpVars, pageVars, usageVars, schedVars>>
vars == <<team_stats, defense_table, def_pc, games_today, opponent_map, opp_pc,
          sc_in, sc_out, sc_pc, wn_in, wn_out, wn_pc, tr_in, tr_out, tr_pc,
          shift, shifted_table, runVars, toolVars>>

---------------------------------------------------------------------------
(* Numbers *)

Abs(x) == IF x < 0 THEN -x ELSE x

RECURSIVE GCD(_, _)
GCD(a, b) == IF b = 0 THEN a ELSE GCD(b, a % b)

\* The number n/d, d > 0, in lowest terms.
Rat(n, d) ==
    LET g == GCD(Abs(n), d)
    IN  [k |-> "num", n |-> n \div g, d |-> d \div g]

Int2(n) == [k |-> "num", n |-> n, d |-> 1]
None == [k |-> "none", n |-> 0, d |-> 1]
Absent == [k |-> "absent", n |-> 0, d |-> 1]
Str == [k |-> "str", n |-> 0, d |-> 1]
NumStr(n, d) == [k |-> "nstr", n |-> n, d |-> d]
Err == [k |-> "err", n |-> 0, d |-> 1]
Zero == Int2(0)
One == Int2(1)
Half == Rat(1, 2)

IsNum(x) == x.k = "num"
\* The operands are reduced against each other first, which keeps the products small.
RAdd(a, b) ==
    LET g == GCD(a.d, b.d)
    IN  Rat(a.n * (b.d \div g) + b.n * (a.d \div g), (a.d \div g) * b.d)
RNeg(a) == [k |-> "num", n |-> -a.n, d |-> a.d]
RSub(a, b) == RAdd(a, RNeg(b))
RMul(a, b) ==
    LET g1 == GCD(Abs(a.n), b.d)
        g2 == GCD(Abs(b.n), a.d)
    IN  Rat((a.n \div g1) * (b.n \div g2), (a.d \div g2) * (b.d \div g1))
\* a / b for b # 0
RDiv(a, b) ==
    IF b.n > 0 THEN RMul(a, [k |-> "num", n |-> b.d, d |-> b.n])
    ELSE RMul(a, [k |-> "num", n |-> -b.d, d |-> -b.n])
RLe(a, b) ==
    LET g == GCD(a.d, b.d)
    IN  a.n * (b.d \div g) <= b.n * (a.d \div g)
RLt(a, b) ==
    LET g == GCD(a.d, b.d)
    IN  a.n * (b.d \div g) < b.n * (a.d \div g)
RGe(a, b) == RLe(b, a)
RGt(a, b) == RLt(b, a)
RMax(a, b) == IF RLt(a, b) THEN b ELSE a
RMin(a, b) == IF RLt(b, a) THEN b ELSE a

\* Python's round(x) for a rational x: to the nearest integer, ties to even.
round_half_even(x) ==
    LET fl == x.n \div x.d
        r2 == 2 * (x.n - fl * x.d)
    IN  IF r2 < x.d THEN fl
        ELSE IF r2 > x.d THEN fl + 1
        ELSE IF fl % 2 = 0 THEN fl ELSE fl + 1

\* round(x, 2)
round2(x) == Rat(round_half_even(RMul(x, Int2(100))), 100)

---------------------------------------------------------------------------
(* build_team_defense_table, src/build_player_stats_with_matchups.py *)

MaxRows == 3

\* 1e-6, the floor of the spread
SPREAD_FLOOR == Rat(1, 1000000)

NoTeam == ""
DefTeams == {"BOS", "MIA", "NYK"}

\* Points allowed per game: 134 scores 66 and 134.01 scores 65.99 between 100 and 200.
MetricVals ==
    {Int2(100), Int2(134), Rat(13401, 100), Int2(167), Rat(16701, 100), Int2(200)}

\* One row of TeamSeasonStats: Team, OpponentPointsPerGame, PointsAllowedPerGame.
TeamRow(team, opp, pa) ==
    [Team |-> team, OpponentPointsPerGame |-> opp, PointsAllowedPerGame |-> pa]

TeamRowVals ==
    {TeamRow(t, v, Absent) : t \in DefTeams, v \in MetricVals}
    \cup {TeamRow(NoTeam, Int2(100), Absent),
          TeamRow("BOS", None, Int2(167)),
          TeamRow("MIA", Absent, NumStr(134, 1)),
          TeamRow("MIA", Absent, Absent),
          TeamRow("NYK", None, None),
          TeamRow("NYK", Str, Int2(100)),
          TeamRow("BOS", Absent, Str)}

\* Rows whose scores are halfway between two hundredths: between 104 and
\* 107.2 the metric 107.1 scores (1 - 3.1 / 3.2) * 100 = 3.125.
ShiftRowVals ==
    {TeamRow(t, v, Absent) :
        t \in DefTeams, v \in {Int2(104), Rat(1071, 10), Rat(1072, 10)}}
    \cup {TeamRow(NoTeam, Int2(104), Absent),
          TeamRow("BOS", Str, Absent),
          TeamRow("MIA", Absent, NumStr(1071, 10))}

\* The constants added to the metrics
ShiftVals == {Int2(100), Rat(1, 2), Int2(-104)}

\* raw + c for a metric that is a number or the string of one
shift_metric(raw, c) ==
    IF raw.k \in {"num", "nstr"}
    THEN [k |-> raw.k, n |-> RAdd(Rat(raw.n, raw.d), c).n,
          d |-> RAdd(Rat(raw.n, raw.d), c).d]
    ELSE raw

\* The rows with c added to the metric of every team
shift_rows(ts, c) ==
    [i \in 1..Len(ts) |->
        [Team |-> ts[i].Team,
         OpponentPointsPerGame |-> shift_metric(ts[i].OpponentPointsPerGame, c),
         PointsAllowedPerGame |-> shift_metric(ts[i].PointsAllowedPerGame, c)]]

SeqsUpTo(S, n) == UNION {[1..m -> S] : m \in 0..n}

\* t.get("OpponentPointsPerGame"), falling back to t.get("PointsAllowedPerGame")
raw_metric(t) ==
    IF t.OpponentPointsPerGame.k \in {"none", "absent"}
    THEN t.PointsAllowedPerGame
    ELSE t.OpponentPointsPerGame

\* row_has_metric without the check of the team code
row_has_metric_unnamed(t) == raw_metric(t).k \in {"num", "nstr"}

\* Whether the row reaches metrics.append: a truthy Team and a raw that float() takes.
row_has_metric(t) ==
    /\ t.Team # NoTeam
    /\ raw_metric(t).k \in {"num", "nstr"}

\* float(raw)
to_float(raw) == Rat(raw.n, raw.d)

RECURSIVE extract_metrics(_)
extract_metrics(ts) ==
    IF ts = <<>> THEN <<>>
    ELSE LET t == ts[Len(ts)]
             rest == extract_metrics(SubSeq(ts, 1, Len(ts) - 1))
         IN  IF row_has_metric(t)
             THEN Append(rest, [team |-> t.Team, val |-> to_float(raw_metric(t))])
             ELSE rest

\* insert_metric that puts m before the elements of its own key: the sort
\* would reverse the input order of equal metrics
RECURSIVE insert_metric_before(_, _)
insert_metric_before(s, m) ==
    IF s = <<>> THEN <<m>>
    ELSE IF RLt(s[Len(s)].val, m.val) THEN Append(s, m)
    ELSE Append(insert_metric_before(SubSeq(s, 1, Len(s) - 1), m), s[Len(s)])

\* m put after every element of the sorted s whose key is <= m's.
RECURSIVE insert_metric(_, _)
insert_metric(s, m) ==
    IF s = <<>> THEN <<m>>
    ELSE IF RLe(s[Len(s)].val, m.val) THEN Append(s, m)
    ELSE Append(insert_metric(SubSeq(s, 1, Len(s) - 1), m), s[Len(s)])

\* metrics.sort(key=lambda x: x[1]): ascending and stable
RECURSIVE sort_metrics(_)
sort_metrics(s) ==
    IF s = <<>> THEN <<>>
    ELSE insert_metric(sort_metrics(SubSeq(s, 1, Len(s) - 1)), s[Len(s)])

RECURSIVE min_val(_)
min_val(s) ==
    IF Len(s) = 1 THEN s[1].val
    ELSE RMin(min_val(SubSeq(s, 1, Len(s) - 1)), s[Len(s)].val)

RECURSIVE max_val(_)
max_val(s) ==
    IF Len(s) = 1 THEN s[1].val
    ELSE RMax(max_val(SubSeq(s, 1, Len(s) - 1)), s[Len(s)].val)

\* spread_of with the largest metric in the place of the range
spread_of_max(v_min, v_max) == RMax(v_max, SPREAD_FLOOR)

\* spread = max(v_max - v_min, 1e-6)
spread_of(v_min, v_max) == RMax(RSub(v_max, v_min), SPREAD_FLOOR)

\* A double holds the rational exactly iff its denominator is a power of two
\* (the magnitudes here are far from the limits of the exponent)
RECURSIVE power_of_two(_)
power_of_two(d) == d = 1 \/ (d % 2 = 0 /\ power_of_two(d \div 2))

dyadic(x) == power_of_two(x.d)

\* x * 100 lies halfway between two integers
half_way(x) ==
    LET y == RMul(x, Int2(100))
    IN  2 * (y.n - (y.n \div y.d) * y.d) = y.d

\* normalized * 100 = (1.0 - (val - v_min) / spread) * 100, its exact value
normalized_100_uninverted(val, v_min, spread) ==
    RMul(RDiv(RSub(val, v_min), spread), Int2(100))

\* normalized * 100, for normalized = 1.0 - (val - v_min) / spread
normalized_100(val, v_min, spread) ==
    RMul(RSub(One, RDiv(RSub(val, v_min), spread)), Int2(100))

\* Whether the doubles compute normalized * 100 without a rounding error
computed_exactly(val, v_min, spread) ==
    /\ dyadic(val) /\ dyadic(v_min) /\ dyadic(spread)
    /\ dyadic(RDiv(RSub(val, v_min), spread))
    /\ dyadic(normalized_100(val, v_min, spread))

\* The exact value of the score is halfway between two hundredths and the
\* double that round() receives is off it by a rounding error
inexact_tie(val, v_min, spread) ==
    /\ half_way(normalized_100(val, v_min, spread))
    /\ ~computed_exactly(val, v_min, spread)

\* score_of without the inversion: the softest defense would score 100
score_of_uninverted(val, v_min, spread, up) ==
    round2(RMul(RDiv(RSub(val, v_min), spread), Int2(100)))

\* score_0_100 = round(normalized * 100, 2): round() takes the double to
\* the nearest hundredth, to the even one from an exact half; a double off
\* the half by its rounding error goes up or down with the sign of the error
score_of(val, v_min, spread, up) ==
    LET x == normalized_100(val, v_min, spread)
        y == RMul(x, Int2(100))
    IN  IF inexact_tie(val, v_min, spread)
        THEN Rat((y.n \div y.d) + (IF up THEN 1 ELSE 0), 100)
        ELSE round2(x)

\* tier_of with the boundaries excluded: 66 would be yellow and 33 green
tier_of_exclusive(score_0_100) ==
    IF RGt(score_0_100, Int2(66)) THEN "red"
    ELSE IF RGt(score_0_100, Int2(33)) THEN "yellow"
    ELSE "green"

tier_of(score_0_100) ==
    IF RGe(score_0_100, Int2(66)) THEN "red"
    ELSE IF RGe(score_0_100, Int2(33)) THEN "yellow"
    ELSE "green"

\* The ranks of the sorted metrics whose score is an inexact tie
tie_ranks(ts) ==
    LET metrics == sort_metrics(extract_metrics(ts))
    IN  IF metrics = <<>> THEN {}
        ELSE {i \in 1..Len(metrics) :
                inexact_tie(metrics[i].val, min_val(metrics),
                            spread_of(min_val(metrics), max_val(metrics)))}

\* ups: the ranks whose rounding error takes an inexact tie up
build_team_defense_table(ts, ups) ==
    LET metrics == sort_metrics(extract_metrics(ts))
    IN  IF metrics = <<>> THEN <<>>
        ELSE
        LET v_min == min_val(metrics)
            v_max == max_val(metrics)
            spread == spread_of(v_min, v_max)
            \* equal metrics are the same double and round the same way
            first_rank(rank) ==
                CHOOSE i \in 1..rank :
                    /\ metrics[i].val = metrics[rank].val
                    /\ \A j \in 1..(i - 1) : metrics[j].val # metrics[rank].val
            entry(rank) ==
                LET score == score_of(metrics[rank].val, v_min, spread,
                                      first_rank(rank) \in ups)
                IN  [def_metric |-> metrics[rank].val,
                     rank |-> rank,
                     score_0_100 |-> score,
                     tier |-> tier_of(score)]
            \* a later assignment to defense_table[team] replaces an earlier one
            last_rank(team) ==
                CHOOSE i \in 1..Len(metrics) :
                    /\ metrics[i].team = team
                    /\ \A j \in (i + 1)..Len(metrics) : metrics[j].team # team
        IN  [team \in {metrics[i].team : i \in 1..Len(metrics)} |->
                entry(last_rank(team))]

---------------------------------------------------------------------------
(* The opponent map: load_schedule_for_today (root), build_opponent_map    *)
(* (sradar) and the loop of main (scripts)                                 *)

MaxGames == 2

OppTeams == {"BOS", "MIA", "NYK", "LAL"}
NullTeam == "<null>"
AbsentTeam == "<absent>"

\* One game: its home and away team, each a code, null, or a key that is absent.
GameVals == [home : OppTeams \cup {NullTeam, AbsentTeam},
             away : OppTeams \cup {NullTeam, AbsentTeam}]

EmptyMap == <<>>

\* m[k] = v
put(m, k, v) == [x \in DOMAIN m \cup {k} |-> IF x = k THEN v ELSE m[x]]

\* add_game without the reverse entry
add_game_one_way(m, home, away) == put(m, home, away)

\* opponent_map[home] = away; opponent_map[away] = home
add_game(m, home, away) == put(put(m, home, away), away, home)

\* g.get("home_team"): None for an absent key
dict_get(v) == IF v = AbsentTeam THEN NullTeam ELSE v

\* `not team`: None and "" are falsy
falsy_team(v) == v \in {NullTeam, NoTeam}

\* load_schedule_for_today and build_opponent_map: a game without both teams is skipped
RECURSIVE opponent_map_guarded(_)
opponent_map_guarded(games) ==
    IF games = <<>> THEN EmptyMap
    ELSE LET g == games[Len(games)]
             m == opponent_map_guarded(SubSeq(games, 1, Len(games) - 1))
             home == dict_get(g.home)
             away == dict_get(g.away)
         IN  IF falsy_team(home) \/ falsy_team(away) THEN m
             ELSE add_game(m, home, away)

\* main of the scoring builder: g["HomeTeam"] and g["AwayTeam"], no guard
RECURSIVE opponent_map_unguarded(_)
opponent_map_unguarded(games) ==
    IF games = <<>> THEN EmptyMap
    ELSE LET g == games[Len(games)]
         IN  add_game(opponent_map_unguarded(SubSeq(games, 1, Len(games) - 1)),
                      g.home, g.away)

\* g["HomeTeam"] raises KeyError when the key is absent
games_raise(games) ==
    \E i \in 1..Len(games) : AbsentTeam \in {games[i].home, games[i].away}

---------------------------------------------------------------------------
(* The scoring builder, src/scripts/build_player_stats_with_matchups.py:   *)
(* Python's operators on the values above                                  *)

\* bool(x)
Truthy(x) ==
    CASE x.k = "num" -> x.n # 0
      [] x.k \in {"str", "nstr"} -> TRUE
      [] OTHER -> FALSE

\* d.get(key, default), v being d's value for the key
get(v, default) == IF v.k = "absent" THEN default ELSE v

\* x or y
py_or(x, y) == IF Truthy(x) THEN x ELSE y

\* a + b, a - b, a * b, a / b: TypeError unless both are numbers
PyAdd(a, b) == IF IsNum(a) /\ IsNum(b) THEN RAdd(a, b) ELSE Err
PySub(a, b) == IF IsNum(a) /\ IsNum(b) THEN RSub(a, b) ELSE Err
PyMul(a, b) == IF IsNum(a) /\ IsNum(b) THEN RMul(a, b) ELSE Err
PyDiv(a, b) == IF IsNum(a) /\ IsNum(b) /\ b.n # 0 THEN RDiv(a, b) ELSE Err

\* safe_div(num, den): num / den if den else 0.0
safe_div(num, den) ==
    IF num.k = "err" \/ den.k = "err" THEN Err
    ELSE IF Truthy(den) THEN PyDiv(num, den)
    ELSE Zero

\* clamp(v, lo, hi): max(lo, min(hi, v))
clamp(v, lo, hi) == IF IsNum(v) THEN RMax(lo, RMin(hi, v)) ELSE Err

\* sum(...) of a sequence of values, starting from 0
RECURSIVE py_sum(_)
py_sum(vals) ==
    IF vals = <<>> THEN Zero
    ELSE PyAdd(py_sum(SubSeq(vals, 1, Len(vals) - 1)), vals[Len(vals)])

\* The resolution of the square root.
Prec == 1000

\* The largest r in lo..hi with r * r <= x (lo * lo <= x < (hi + 1) * (hi + 1)).
RECURSIVE isqrt_between(_, _, _)
isqrt_between(lo, hi, x) ==
    IF lo = hi THEN lo
    ELSE LET mid == (lo + hi + 1) \div 2
         IN  IF mid * mid <= x THEN isqrt_between(mid, hi, x)
             ELSE isqrt_between(lo, mid - 1, x)

\* x ** 0.5 for x >= 0, rounded down to a multiple of 1/Prec
py_sqrt(x) == Rat(isqrt_between(0, 46000, (x.n * Prec * Prec) \div x.d), Prec)

---------------------------------------------------------------------------
(* The body of the player loop of main, lines 167-393 *)

SEASON == 2025
LAST_N == 5

\* logs[-5:] if logs else []
last5_of(logs) ==
    IF Len(logs) <= LAST_N THEN logs
    ELSE SubSeq(logs, Len(logs) - LAST_N + 1, Len(logs))

\* [l.get(key, 0) for l in last5]
stat_values(last5, key) == [i \in 1..Len(last5) |-> get(last5[i][key], Zero)]

\* safe_div(sum(l.get(key, 0) for l in last5), len(last5))
l5_avg(last5, key) == safe_div(py_sum(stat_values(last5, key)), Int2(Len(last5)))

\* std: var = sum((v - mean) ** 2 for v in values) / len(values); the root of
\* var is taken in cons, where std_val is divided by mean_val.
variance(values, mean) ==
    IF values = <<>> THEN Zero
    ELSE PyDiv(py_sum([i \in 1..Len(values) |->
                        PyMul(PySub(values[i], mean), PySub(values[i], mean))]),
               Int2(Len(values)))

\* cons without the clamp
cons_unclamped(var, mean_val) ==
    IF ~IsNum(var) \/ ~IsNum(mean_val) THEN Err
    ELSE IF RLe(mean_val, Zero) THEN Half
    ELSE RSub(One, py_sqrt(RDiv(var, RMul(mean_val, mean_val))))

\* cons(std_val, mean_val) with std_val = var ** 0.5:
\* 0.5 if mean_val <= 0, else clamp(1.0 - std_val / mean_val, 0.0, 1.0)
cons(var, mean_val) ==
    IF ~IsNum(var) \/ ~IsNum(mean_val) THEN Err
    ELSE IF RLe(mean_val, Zero) THEN Half
    ELSE clamp(RSub(One, py_sqrt(RDiv(var, RMul(mean_val, mean_val)))), Zero, One)

\* trend_label with the thresholds included: a ratio of 0.15 would be "up"
trend_label_inclusive(last5_val, season_val) ==
    IF ~IsNum(last5_val) \/ ~IsNum(season_val) THEN "raised"
    ELSE IF RLe(season_val, Zero) THEN "flat"
    ELSE LET diff_pct == RDiv(RSub(last5_val, season_val), season_val)
         IN  IF RGe(diff_pct, Rat(15, 100)) THEN "up"
             ELSE IF RLe(diff_pct, Rat(-15, 100)) THEN "down"
             ELSE "flat"

trend_label(last5_val, season_val) ==
    IF ~IsNum(last5_val) \/ ~IsNum(season_val) THEN "raised"
    ELSE IF RLe(season_val, Zero) THEN "flat"
    ELSE LET diff_pct == RDiv(RSub(last5_val, season_val), season_val)
         IN  IF RGt(diff_pct, Rat(15, 100)) THEN "up"
             ELSE IF RLt(diff_pct, Rat(-15, 100)) THEN "down"
             ELSE "flat"

\* def_component_of without the rank: always the neutral value
def_component_of_neutral(dr) == Half

\* (dr - 1) / 29.0 if dr else 0.5
def_component_of(dr) ==
    IF Truthy(dr) THEN PyDiv(PySub(dr, One), Int2(29)) ELSE Half

\* opp_rec.get("pf") and avg_pf: clamp(pf / avg_pf, 0.5, 1.5) - 0.5, else 0.5
pace_component_of(opp_rec, league_avg_pf) ==
    IF Truthy(get(opp_rec.pf, None)) /\ Truthy(league_avg_pf)
    THEN PyDiv(PySub(clamp(PyDiv(opp_rec.pf, league_avg_pf), Half, Rat(3, 2)), Half),
               One)
    ELSE Half

\* win_component_of with 0 for the win pct of an opponent without a row
win_component_of_zero(opp_rec) == PySub(One, get(opp_rec.pct, Zero))

\* 1.0 - opp_rec.get("pct", 0.5)
win_component_of(opp_rec) == PySub(One, get(opp_rec.pct, Half))

\* smi_of with the weights of the defense and pace components exchanged
smi_of_swapped(def_component, pace_component, win_component) ==
    clamp(PyAdd(PyAdd(PyMul(Rat(3, 10), def_component),
                      PyMul(Rat(4, 10), pace_component)),
                PyMul(Rat(3, 10), win_component)),
          Zero, One)

smi_of(def_component, pace_component, win_component) ==
    clamp(PyAdd(PyAdd(PyMul(Rat(4, 10), def_component),
                      PyMul(Rat(3, 10), pace_component)),
                PyMul(Rat(3, 10), win_component)),
          Zero, One)

\* The confidence before round and clamp, for numbers usage, season_min, smi, avg_cons.
\* confidence_raw with a penalty of 10 for a poor matchup
confidence_raw_harsh(usage, season_min, smi, trend_pts, avg_cons) ==
    50
    + (IF RGe(usage, Int2(28)) THEN 15 ELSE IF RGe(usage, Int2(22)) THEN 8 ELSE 0)
    + (IF RGe(season_min, Int2(32)) THEN 12
       ELSE IF RGe(season_min, Int2(26)) THEN 6 ELSE 0)
    + (IF RGe(smi, Rat(7, 10)) THEN 10
       ELSE IF RGe(smi, Rat(55, 100)) THEN 5
       ELSE IF RLe(smi, Rat(35, 100)) THEN -10 ELSE 0)
    + (IF trend_pts = "up" THEN 6 ELSE IF trend_pts = "down" THEN -6 ELSE 0)
    + (IF RGe(avg_cons, Rat(75, 100)) THEN 6
       ELSE IF RLe(avg_cons, Rat(4, 10)) THEN -6 ELSE 0)

confidence_raw(usage, season_min, smi, trend_pts, avg_cons) ==
    50
    + (IF RGe(usage, Int2(28)) THEN 15 ELSE IF RGe(usage, Int2(22)) THEN 8 ELSE 0)
    + (IF RGe(season_min, Int2(32)) THEN 12
       ELSE IF RGe(season_min, Int2(26)) THEN 6 ELSE 0)
    + (IF RGe(smi, Rat(7, 10)) THEN 10
       ELSE IF RGe(smi, Rat(55, 100)) THEN 5
       ELSE IF RLe(smi, Rat(35, 100)) THEN -8 ELSE 0)
    + (IF trend_pts = "up" THEN 6 ELSE IF trend_pts = "down" THEN -6 ELSE 0)
    + (IF RGe(avg_cons, Rat(75, 100)) THEN 6
       ELSE IF RLe(avg_cons, Rat(4, 10)) THEN -6 ELSE 0)

\* confidence_of relative to the base of 50 and without the clamp: negative
\* when the penalties outweigh the bonuses
confidence_of_relative(raw) == round_half_even(Int2(raw)) - 50

\* clamp(round(confidence), 0, 100)
confidence_of(raw) ==
    LET r == round_half_even(Int2(raw))
    IN  IF r < 0 THEN 0 ELSE IF r > 100 THEN 100 ELSE r

\* rec_tag_of with the boundaries excluded: 80 would be a Value Play
rec_tag_of_exclusive(confidence) ==
    IF confidence > 80 THEN "AUTO-GREEN"
    ELSE IF confidence > 60 THEN "Value Play"
    ELSE IF confidence > 40 THEN "Volatile"
    ELSE "Avoid"

rec_tag_of(confidence) ==
    IF confidence >= 80 THEN "AUTO-GREEN"
    ELSE IF confidence >= 60 THEN "Value Play"
    ELSE IF confidence >= 40 THEN "Volatile"
    ELSE "Avoid"

\* The block "last 5 games trends & variance", lines 211-247: the window, its
\* averages and its consistency scores.
recent_form(logs, season_pts, season_reb, season_ast) ==
    LET last5 == last5_of(logs)
    IN  IF last5 # <<>>
        THEN LET l5_pts == l5_avg(last5, "Points")
                 l5_reb == l5_avg(last5, "Rebounds")
                 l5_ast == l5_avg(last5, "Assists")
             IN  [last5 |-> last5,
                  l5_pts |-> l5_pts, l5_reb |-> l5_reb, l5_ast |-> l5_ast,
                  cons_pts |-> cons(variance(stat_values(last5, "Points"), l5_pts),
                                    l5_pts),
                  cons_reb |-> cons(variance(stat_values(last5, "Rebounds"), l5_reb),
                                    l5_reb),
                  cons_ast |-> cons(variance(stat_values(last5, "Assists"), l5_ast),
                                    l5_ast)]
        ELSE [last5 |-> last5,
              l5_pts |-> season_pts, l5_reb |-> season_reb, l5_ast |-> season_ast,
              cons_pts |-> Half, cons_reb |-> Half, cons_ast |-> Half]

\* missing_record with nulls where the code writes zeros
missing_record_nulls(team_code) ==
    [team |-> team_code, season |-> SEASON, games |-> None,
     min |-> None, pts |-> None, reb |-> None, ast |-> None,
     stl |-> None, blk |-> None, tov |-> None, usage |-> None,
     pace |-> None, opponent |-> NullTeam, def_rank |-> None,
     team_record |-> None, opp_record |-> None, opp_streak |-> None,
     smi |-> Half, confidence |-> 50, rec_tag |-> "Unknown"]

\* final[name] of a player season_by_name does not have, lines 171-192
missing_record(team_code) ==
    [team |-> team_code, season |-> SEASON, games |-> Zero,
     min |-> Zero, pts |-> Zero, reb |-> Zero, ast |-> Zero,
     stl |-> Zero, blk |-> Zero, tov |-> Zero, usage |-> Zero,
     pace |-> None, opponent |-> NullTeam, def_rank |-> None,
     team_record |-> None, opp_record |-> None, opp_streak |-> None,
     smi |-> Half, confidence |-> 50, rec_tag |-> "Unknown"]

NoLocals == [scored |-> FALSE]

\* g without the `or 1`
games_or_one_raw(games) == games

\* g = games or 1, line 197
games_or_one(games) == py_or(games, One)

\* The season per-game averages of a player, lines 196-208
season_averages(sr) ==
    LET games == get(sr.Games, Zero)
        g == games_or_one(games)
    IN  [games |-> games, g |-> g,
         pts |-> safe_div(get(sr.Points, Zero), g),
         reb |-> safe_div(get(sr.Rebounds, Zero), g),
         ast |-> safe_div(get(sr.Assists, Zero), g),
         min |-> safe_div(get(sr.Minutes, Zero), g),
         stl |-> safe_div(get(sr.Steals, Zero), g),
         blk |-> safe_div(get(sr.BlockedShots, Zero), g),
         tov |-> safe_div(get(sr.Turnovers, Zero), g),
         usage |-> py_or(get(sr.UsageRate, Zero), Zero),
         poss |-> get(sr.Possessions, None)]

\* The Strength of Matchup Index and its components, lines 273-294
matchup_index(opp_rec, dr, league_avg_pf) ==
    [def_component |-> def_component_of(dr),
     pace_component |-> pace_component_of(opp_rec, league_avg_pf),
     win_component |-> win_component_of(opp_rec),
     smi |-> smi_of(def_component_of(dr),
                    pace_component_of(opp_rec, league_avg_pf),
                    win_component_of(opp_rec))]

\* Lines 249-393 for a player of season averages avgs, recent form form and
\* matchup index mx: the trends, the confidence, the tag and final[name]
score_found(team_code, avgs, form, mx, opp_team, team_rec, opp_rec, dr) ==
    LET trend_pts == trend_label(form.l5_pts, avgs.pts)
        avg_cons == PyDiv(PyAdd(PyAdd(form.cons_pts, form.cons_reb), form.cons_ast),
                          Int2(3))
        computed == {avgs.pts, avgs.reb, avgs.ast, avgs.min, avgs.stl, avgs.blk,
                     avgs.tov, form.l5_pts, form.l5_reb, form.l5_ast,
                     form.cons_pts, form.cons_reb, form.cons_ast, mx.smi}
        \* an arithmetic step raised, or usage >= 28 compared a string with a number
        raised == (\E v \in computed : v.k = "err") \/ ~IsNum(avgs.usage)
        raw == confidence_raw(avgs.usage, avgs.min, mx.smi, trend_pts, avg_cons)
    IN  IF raised
        THEN [raised |-> TRUE, record |-> <<>>, locals |-> NoLocals]
        ELSE
        [raised |-> FALSE,
         record |->
           [team |-> team_code, season |-> SEASON, games |-> avgs.games,
            min |-> avgs.min, pts |-> avgs.pts, reb |-> avgs.reb,
            ast |-> avgs.ast, stl |-> avgs.stl, blk |-> avgs.blk,
            tov |-> avgs.tov,
            l5_pts |-> form.l5_pts, l5_reb |-> form.l5_reb, l5_ast |-> form.l5_ast,
            trend_pts |-> trend_pts,
            trend_reb |-> trend_label(form.l5_reb, avgs.reb),
            trend_ast |-> trend_label(form.l5_ast, avgs.ast),
            cons_pts |-> form.cons_pts, cons_reb |-> form.cons_reb,
            cons_ast |-> form.cons_ast,
            usage |-> avgs.usage, pace |-> avgs.poss, smi |-> mx.smi,
            confidence |-> confidence_of(raw),
            rec_tag |-> rec_tag_of(confidence_of(raw)),
            opponent |-> opp_team, def_rank |-> dr,
            team_record |-> get(team_rec.record_str, None),
            team_win_pct |-> get(team_rec.pct, None),
            opp_record |-> get(opp_rec.record_str, None),
            opp_win_pct |-> get(opp_rec.pct, None),
            opp_streak |-> get(opp_rec.streak, None),
            opp_points_for |-> get(opp_rec.pf, None),
            opp_points_against |-> get(opp_rec.pa, None),
            opp_conf_rank |-> get(opp_rec.conf_rank, None),
            opp_div_rank |-> get(opp_rec.div_rank, None)],
         locals |->
           [scored |-> TRUE, g |-> avgs.g, last5 |-> form.last5,
            def_component |-> mx.def_component,
            pace_component |-> mx.pace_component,
            win_component |-> mx.win_component,
            avg_cons |-> avg_cons, confidence_raw |-> raw]]

\* Lines 195-393 for a player the season feed has, of season averages avgs
score_with_averages(team_code, avgs, logs, opp_team, team_rec, opp_rec, dr, league_avg_pf) ==
    score_found(team_code, avgs,
                recent_form(logs, avgs.pts, avgs.reb, avgs.ast),
                matchup_index(opp_rec, dr, league_avg_pf),
                opp_team, team_rec, opp_rec, dr)

\* One pass of the loop body for a player of team_code, given what the lookups
\* hold for the player: season_raw is <<>> for season_by_name.get(name) =
\* None and <<record>> otherwise; logs is logs_by_name.get(name, []); opp_team
\* is opponents.get(team_code); team_rec, opp_rec and dr are the team_info
\* and def_rank entries. The result says whether the pass raised, and
\* otherwise gives final[name] and the local variables of the pass.
score_player(team_code, season_raw, logs, opp_team, team_rec, opp_rec, dr, league_avg_pf) ==
    IF season_raw = <<>>
    THEN [raised |-> FALSE, record |-> missing_record(team_code), locals |-> NoLocals]
    ELSE score_with_averages(team_code, season_averages(season_raw[1]), logs,
                             opp_team, team_rec, opp_rec, dr, league_avg_pf)

---------------------------------------------------------------------------
(* The lookups of main, lines 110-156 *)

\* The date of a game log: an ISO date string, ordered as its day number.
Day(n) == [k |-> "str", n |-> n, d |-> 1]

\* f"{wins}-{losses}"
record_str_of(wins, losses) == [k |-> "str", n |-> wins.n, d |-> losses.n]

\* team_info.get(code, {}) when team_info has no such code
EmptyRec ==
    [wins |-> Absent, losses |-> Absent, pct |-> Absent, record_str |-> Absent,
     streak |-> Absent, pf |-> Absent, pa |-> Absent, conf_rank |-> Absent,
     div_rank |-> Absent]

\* team_info[code] of the standings row t, lines 132-146
team_info_entry(t) ==
    LET wins == get(t.Wins, Zero)
        losses == get(t.Losses, Zero)
        \* the default is computed whether or not the row has a Percentage
        dflt == safe_div(wins, PyAdd(wins, losses))
    IN  [wins |-> wins, losses |-> losses,
         pct |-> get(t.Percentage, dflt),
         record_str |-> record_str_of(wins, losses),
         streak |-> py_or(get(t.StreakDescription, None), Str),
         pf |-> get(t.PointsFor, None),
         pa |-> get(t.PointsAgainst, None),
         conf_rank |-> get(t.ConferenceRank, None),
         div_rank |-> get(t.DivisionRank, None)]

\* Whether building team_info[code] of row t raises: wins + losses of a null
team_info_raises(t) ==
    LET wins == get(t.Wins, Zero)
        losses == get(t.Losses, Zero)
    IN  safe_div(wins, PyAdd(wins, losses)).k = "err"

\* x.get("Date", ""): "" sorts before every date
date_key(l) == get(l.Date, Day(0))

\* l put after every element of the sorted s whose date is <= l's.
RECURSIVE insert_log(_, _)
insert_log(s, l) ==
    IF s = <<>> THEN <<l>>
    ELSE IF date_key(s[Len(s)]).n <= date_key(l).n THEN Append(s, l)
    ELSE Append(insert_log(SubSeq(s, 1, Len(s) - 1), l), s[Len(s)])

\* sort_logs that leaves the logs in the order of the source
sort_logs_unsorted(s) == s

\* logs_by_name[name].sort(key=lambda x: x.get("Date", "")): ascending, stable
RECURSIVE sort_logs(_)
sort_logs(s) ==
    IF s = <<>> THEN <<>>
    ELSE insert_log(sort_logs(SubSeq(s, 1, Len(s) - 1)), s[Len(s)])

\* The sort compares the dates of two or more logs: TypeError unless all are strings.
sort_logs_raises(s) ==
    Len(s) >= 2 /\ \E i \in 1..Len(s) : date_key(s[i]).k # "str"

\* The name of a row of a feed: a string, null, or a key that is absent.
NullName == "<null>"
AbsentName == "<absent>"

\* name.strip()
py_strip(name) == IF name = "A " THEN "A" ELSE name

\* The row with its "Name" set
with_name(row, name) ==
    [x \in DOMAIN row \cup {"Name"} |-> IF x = "Name" THEN name ELSE row[x]]

\* p["Name"].strip() raises KeyError for an absent key, AttributeError for null
names_raise(rows) ==
    \E i \in 1..Len(rows) : rows[i].Name \in {AbsentName, NullName}

\* season_by_name = {p["Name"].strip(): p for p in season_stats}, line 111
RECURSIVE season_by_name_of(_)
season_by_name_of(rows) ==
    IF rows = <<>> THEN <<>>
    ELSE put(season_by_name_of(SubSeq(rows, 1, Len(rows) - 1)),
             py_strip(rows[Len(rows)].Name), rows[Len(rows)])

\* logs_by_name[name].append(g) for every g of game_logs, lines 114-117
RECURSIVE group_logs(_)
group_logs(rows) ==
    IF rows = <<>> THEN <<>>
    ELSE LET m == group_logs(SubSeq(rows, 1, Len(rows) - 1))
             g == rows[Len(rows)]
             name == py_strip(g.Name)
         IN  put(m, name, Append(IF name \in DOMAIN m THEN m[name] ELSE <<>>, g))

\* logs_by_name with every list sorted, lines 114-119
logs_by_name_of(rows) ==
    LET m == group_logs(rows) IN [name \in DOMAIN m |-> sort_logs(m[name])]

logs_by_name_raises(rows) ==
    \/ names_raise(rows)
    \/ \E name \in DOMAIN group_logs(rows) : sort_logs_raises(group_logs(rows)[name])

\* t["Key"] raises KeyError for an absent key
keys_raise(rows) == \E i \in 1..Len(rows) : rows[i].Key = AbsentTeam

\* team_info, lines 130-146: a later row of a code replaces an earlier one
RECURSIVE team_info_of(_)
team_info_of(rows) ==
    IF rows = <<>> THEN <<>>
    ELSE put(team_info_of(SubSeq(rows, 1, Len(rows) - 1)),
             rows[Len(rows)].Key, team_info_entry(rows[Len(rows)]))

\* x.get("PointsAgainst", 999)
pa_key(t) == get(t.PointsAgainst, Int2(999))

\* t put after every element of the sorted s whose key is <= t's.
RECURSIVE insert_row(_, _)
insert_row(s, t) ==
    IF s = <<>> THEN <<t>>
    ELSE IF RLe(pa_key(s[Len(s)]), pa_key(t)) THEN Append(s, t)
    ELSE Append(insert_row(SubSeq(s, 1, Len(s) - 1), t), s[Len(s)])

\* sorted(standings, key=lambda x: x.get("PointsAgainst", 999)), line 149
RECURSIVE sorted_def_of(_)
sorted_def_of(rows) ==
    IF rows = <<>> THEN <<>>
    ELSE insert_row(sorted_def_of(SubSeq(rows, 1, Len(rows) - 1)), rows[Len(rows)])

\* The sort compares the keys of two or more rows: TypeError unless all are numbers.
sorted_def_raises(rows) ==
    Len(rows) >= 2 /\ \E i \in 1..Len(rows) : ~IsNum(pa_key(rows[i]))

\* rank_map that stops after the best defense
rank_map_best_only(sorted) ==
    IF sorted = <<>> THEN <<>> ELSE put(<<>>, sorted[1].Key, 1)

\* def_rank = {t["Key"]: i + 1 for i, t in enumerate(sorted_def)}, line 150
RECURSIVE rank_map(_)
rank_map(sorted) ==
    IF sorted = <<>> THEN <<>>
    ELSE put(rank_map(SubSeq(sorted, 1, Len(sorted) - 1)),
             sorted[Len(sorted)].Key, Len(sorted))

def_rank_of(rows) == rank_map(sorted_def_of(rows))

\* len(standings) or 1, line 155
league_divisor(rows) == py_or(Int2(Len(rows)), One)

\* avg_pf = safe_div(sum(t.get("PointsFor", 0) for t in standings),
\*                   len(standings) or 1), lines 153-156
avg_pf_of(rows) ==
    safe_div(py_sum([i \in 1..Len(rows) |-> get(rows[i].PointsFor, Zero)]),
             league_divisor(rows))

\* Whether lines 110-156 raise on the fetched data
lookups_raise(season_rows, log_rows, games, rows) ==
    \/ names_raise(season_rows)
    \/ logs_by_name_raises(log_rows)
    \/ games_raise(games)
    \/ keys_raise(rows)
    \/ \E i \in 1..Len(rows) : team_info_raises(rows[i])
    \/ sorted_def_raises(rows)
    \/ avg_pf_of(rows).k = "err"

\* roster_entries of the first team only
roster_entries_first(rs) ==
    IF rs = <<>> THEN <<>>
    ELSE [i \in 1..Len(rs[1].players) |->
            [name |-> rs[1].players[i], team_code |-> rs[1].team]]

\* The players of the rosters in the order of the loops of lines 165-166
RECURSIVE roster_entries(_)
roster_entries(rs) ==
    IF rs = <<>> THEN <<>>
    ELSE roster_entries(SubSeq(rs, 1, Len(rs) - 1)) \o
         [i \in 1..Len(rs[Len(rs)].players) |->
            [name |-> rs[Len(rs)].players[i], team_code |-> rs[Len(rs)].team]]

\* d.get(key) of a dict of teams: None for a key the dict does not have
team_get(m, key) == IF key \in DOMAIN m THEN m[key] ELSE NullTeam

\* The pass of the loop body for one roster entry, given the lookups
score_entry(e, by_name, logs_of, opps, info, ranks, avg) ==
    LET opp_team == team_get(opps, e.team_code)
        has_opp == ~falsy_team(opp_team)
    IN  score_player(
            e.team_code,
            IF e.name \in DOMAIN by_name THEN <<by_name[e.name]>> ELSE <<>>,
            IF e.name \in DOMAIN logs_of THEN logs_of[e.name] ELSE <<>>,
            opp_team,
            IF e.team_code \in DOMAIN info THEN info[e.team_code] ELSE EmptyRec,
            IF has_opp /\ opp_team \in DOMAIN info THEN info[opp_team] ELSE EmptyRec,
            IF has_opp /\ opp_team \in DOMAIN ranks THEN Int2(ranks[opp_team]) ELSE None,
            avg)

\* The right operands of the `/` that one pass of the loop for a found
\* player evaluates: safe_div divides only by a truthy den (line 75), std
\* only for a non-empty list (220-222), cons only by a mean > 0 (235-237),
\* trend_label only by a season_val > 0 (251-253), the pace component only
\* by a truthy avg_pf (279-281).
pass_divisors(season_raw, logs, opp_rec, league_avg_pf) ==
    LET avgs == season_averages(season_raw)
        form == recent_form(logs, avgs.pts, avgs.reb, avgs.ast)
        positive(S) == {v \in S : IsNum(v) /\ RGt(v, Zero)}
    IN  (IF Truthy(avgs.g) THEN {avgs.g} ELSE {})
        \cup (IF form.last5 # <<>>
              THEN {Int2(Len(form.last5))}
                   \cup positive({form.l5_pts, form.l5_reb, form.l5_ast})
              ELSE {})
        \cup positive({avgs.pts, avgs.reb, avgs.ast})
        \cup (IF Truthy(get(opp_rec.pf, None)) /\ Truthy(league_avg_pf)
              THEN {league_avg_pf} ELSE {})
        \cup {Int2(29), One, Int2(3)}

\* The divisors of the pass of the loop for one roster entry
entry_divisors(e, by_name, logs_of, opps, info, avg) ==
    LET opp_team == team_get(opps, e.team_code)
    IN  IF e.name \notin DOMAIN by_name THEN {}
        ELSE pass_divisors(
                 by_name[e.name],
                 IF e.name \in DOMAIN logs_of THEN logs_of[e.name] ELSE <<>>,
                 IF ~falsy_team(opp_team) /\ opp_team \in DOMAIN info
                 THEN info[opp_team] ELSE EmptyRec,
                 avg)

\* The divisors of the lookups: safe_div(wins, wins + losses) of each row
\* of the standings (line 135) and len(standings) or 1 (line 155)
lookup_divisors(rows) ==
    {league_divisor(rows)}
    \cup {PyAdd(get(rows[i].Wins, Zero), get(rows[i].Losses, Zero)) :
            i \in {j \in 1..Len(rows) :
                     LET den == PyAdd(get(rows[j].Wins, Zero),
                                      get(rows[j].Losses, Zero))
                     IN  IsNum(den) /\ Truthy(den)}}


---------------------------------------------------------------------------
(* build_player_stats of the root builder, src/build_player_stats_with_matchups.py *)

SEASON_ROOT == 2026

NoTier == "<null>"

\* float(v): TypeError for None, ValueError for a string that is no number
py_float(v) == IF v.k \in {"num", "nstr"} THEN Rat(v.n, v.d) ELSE Err

\* round(x, 3)
round3(x) == Rat(round_half_even(RMul(x, Int2(1000))), 1000)

\* pct(made, att): 0.0 when att is not above 0 or a conversion fails
pct(made, att) ==
    LET att_val == py_float(att)
        made_val == py_float(made)
    IN  IF att_val.k = "err" THEN Zero
        ELSE IF RLe(att_val, Zero) THEN Zero
        ELSE IF made_val.k = "err" THEN Zero
        ELSE round3(RDiv(made_val, att_val))

\* player_lookup: rows without a truthy Name are skipped; no strip
RECURSIVE player_lookup_of(_)
player_lookup_of(rows) ==
    IF rows = <<>> THEN <<>>
    ELSE LET m == player_lookup_of(SubSeq(rows, 1, Len(rows) - 1))
             name == rows[Len(rows)].Name
         IN  IF name \in {AbsentName, NullName, ""} THEN m
             ELSE put(m, name, rows[Len(rows)])

\* normalize_team_code: TEAM_ALIASES is empty
normalize_team_code(code) == IF falsy_team(code) THEN NoTeam ELSE code

\* final[name] of build_player_stats; pdata is <<>> for a player the feed
\* does not have, defense_info is <<>> for None
root_record(team_code, pdata, opp_team, defense_info) ==
    LET p == pdata[1]
        f(v) == py_or(get(v, Zero), Zero)
        found == pdata # <<>>
    IN  [games |-> IF found THEN f(p.Games) ELSE Zero,
         min |-> IF found THEN f(p.Minutes) ELSE Zero,
         pts |-> IF found THEN f(p.Points) ELSE Zero,
         reb |-> IF found THEN f(p.Rebounds) ELSE Zero,
         ast |-> IF found THEN f(p.Assists) ELSE Zero,
         stl |-> IF found THEN f(p.Steals) ELSE Zero,
         blk |-> IF found THEN f(p.BlockedShots) ELSE Zero,
         tov |-> IF found THEN f(p.Turnovers) ELSE Zero,
         fg3a |-> IF found THEN f(p.ThreePointAttempts) ELSE Zero,
         fg3_pct |-> IF found
                     THEN pct(get(p.ThreePointersMade, Zero),
                              get(p.ThreePointAttempts, Zero))
                     ELSE Zero,
         fga |-> IF found THEN f(p.FieldGoalsAttempted) ELSE Zero,
         fg_pct |-> IF found
                    THEN pct(get(p.FieldGoalsMade, Zero),
                             get(p.FieldGoalsAttempted, Zero))
                    ELSE Zero,
         fta |-> IF found THEN f(p.FreeThrowAttempts) ELSE Zero,
         ft_pct |-> IF found
                    THEN pct(get(p.FreeThrowsMade, Zero),
                             get(p.FreeThrowAttempts, Zero))
                    ELSE Zero,
         usage |-> IF found THEN f(p.UsageRate) ELSE Zero,
         team |-> team_code,
         season |-> SEASON_ROOT,
         opponent_team |-> opp_team,
         opponent_defense_score |->
             IF defense_info # <<>> THEN defense_info[1].score_0_100 ELSE None,
         opponent_defense_tier |->
             IF defense_info # <<>> THEN defense_info[1].tier ELSE NoTier]

\* The pass of the loops of build_player_stats for one roster entry
root_entry(e, player_lookup, table, opps) ==
    LET opp_team == team_get(opps, e.team_code)
        norm_opp_team == IF falsy_team(opp_team) THEN NullTeam
                         ELSE normalize_team_code(opp_team)
    IN  root_record(
            e.team_code,
            IF e.name \in DOMAIN player_lookup THEN <<player_lookup[e.name]>> ELSE <<>>,
            opp_team,
            IF ~falsy_team(norm_opp_team) /\ norm_opp_team \in DOMAIN table
            THEN <<table[norm_opp_team]>> ELSE <<>>)

---------------------------------------------------------------------------
(* main of the BallDontLie builder, src/scripts/build_player_stats_bdl.py *)

SEASON_BDL == 2025

\* The teams in alphabetical order, as sorted() orders their codes
TeamOrder == <<"", "BOS", "LAL", "MIA", "NYK">>

\* teams_today: every home and away team of the day's games
teams_today_of(games) ==
    UNION {{games[i].home, games[i].away} : i \in 1..Len(games)}

\* g["home_team"] raises KeyError for an absent key; sorted(teams_today)
\* raises TypeError when it compares None with a string
bdl_games_raise(games) ==
    \/ games_raise(games)
    \/ NullTeam \in teams_today_of(games) /\ Cardinality(teams_today_of(games)) >= 2

\* rosters.get(t, [])
players_of(rs, t) ==
    IF \E i \in 1..Len(rs) : rs[i].team = t
    THEN rs[CHOOSE i \in 1..Len(rs) : rs[i].team = t].players
    ELSE <<>>

\* player_entries of the first n teams of TeamOrder that play today
RECURSIVE player_entries_upto(_, _, _)
player_entries_upto(rs, teams, n) ==
    IF n = 0 THEN <<>>
    ELSE player_entries_upto(rs, teams, n - 1) \o
         (IF TeamOrder[n] \in teams
          THEN [i \in 1..Len(players_of(rs, TeamOrder[n])) |->
                  [name |-> players_of(rs, TeamOrder[n])[i],
                   team_code |-> TeamOrder[n]]]
          ELSE <<>>)

\* for t in sorted(teams_today): for name in rosters.get(t, [])
player_entries_of(rs, games) ==
    player_entries_upto(rs, teams_today_of(games), Len(TeamOrder))

\* float(row.get(key, 0.0) or 0.0)
float_or_zero(v) == py_float(py_or(get(v, Zero), Zero))

\* games_sorted[:5]
LAST_N_BDL == 5

\* g put after every element of the sorted s whose date is >= g's.
RECURSIVE insert_game_desc(_, _)
insert_game_desc(s, g) ==
    IF s = <<>> THEN <<g>>
    ELSE IF date_key(s[Len(s)]).n >= date_key(g).n THEN Append(s, g)
    ELSE Append(insert_game_desc(SubSeq(s, 1, Len(s) - 1), g), s[Len(s)])

\* sorted(games, key=game_date, reverse=True): descending, and stable. A
\* game of the stats endpoint is held as a log line: Date is its
\* game.date, Points, Rebounds and Assists its pts, reb and ast.
RECURSIVE games_sorted_of(_)
games_sorted_of(games) ==
    IF games = <<>> THEN <<>>
    ELSE insert_game_desc(games_sorted_of(SubSeq(games, 1, Len(games) - 1)),
                          games[Len(games)])

first5_of(games_sorted) ==
    IF Len(games_sorted) <= LAST_N_BDL THEN games_sorted
    ELSE SubSeq(games_sorted, 1, LAST_N_BDL)

\* get_last5_averages raises: the slice [:10] of a null date, the sum of a
\* null stat
last5_averages_raise(games) ==
    \/ \E i \in 1..Len(games) : date_key(games[i]).k # "str"
    \/ \E key \in {"Points", "Rebounds", "Assists"} :
          py_sum(stat_values(first5_of(games_sorted_of(games)), key)).k = "err"

\* last5_by_id[pid]: get_last5_averages(pid), or zeros when it raises
\* (main, lines 214-219) and when there are no games
get_last5_averages(games) ==
    IF games = <<>> \/ last5_averages_raise(games)
    THEN [last5 |-> <<>>, pts |-> Zero, reb |-> Zero, ast |-> Zero]
    ELSE LET last5 == first5_of(games_sorted_of(games))
         IN  [last5 |-> last5,
              pts |-> PyDiv(py_sum(stat_values(last5, "Points")), Int2(Len(last5))),
              reb |-> PyDiv(py_sum(stat_values(last5, "Rebounds")), Int2(Len(last5))),
              ast |-> PyDiv(py_sum(stat_values(last5, "Assists")), Int2(Len(last5)))]

\* final[full_name]; season_row and last5_row hold Absent for every key when
\* the player id was not resolved
bdl_record(team_code, season_row, last5_row, opp) ==
    [team |-> team_code,
     season |-> SEASON_BDL,
     games |-> py_or(get(season_row.games_played, Zero), Zero),
     pts |-> float_or_zero(season_row.pts),
     reb |-> float_or_zero(season_row.reb),
     ast |-> float_or_zero(season_row.ast),
     stl |-> float_or_zero(season_row.stl),
     blk |-> float_or_zero(season_row.blk),
     tov |-> float_or_zero(season_row.turnover),
     fg3a |-> float_or_zero(season_row.fg3a),
     fg3_pct |-> float_or_zero(season_row.fg3_pct),
     fga |-> float_or_zero(season_row.fga),
     fg_pct |-> float_or_zero(season_row.fg_pct),
     fta |-> float_or_zero(season_row.fta),
     ft_pct |-> float_or_zero(season_row.ft_pct),
     opponent |-> opp,
     def_rank |-> None, team_record |-> None, team_win_pct |-> None,
     opp_record |-> None, opp_win_pct |-> None, opp_streak |-> None,
     opp_points_for |-> None, opp_points_against |-> None,
     opp_conf_rank |-> None, opp_div_rank |-> None,
     usage |-> None, pace |-> None,
     last5_pts |-> float_or_zero(last5_row.pts),
     last5_reb |-> float_or_zero(last5_row.reb),
     last5_ast |-> float_or_zero(last5_row.ast)]

\* Whether a float() of the pass raised
bdl_record_raises(rec) ==
    \E v \in {rec.pts, rec.reb, rec.ast, rec.stl, rec.blk, rec.tov, rec.fg3a,
              rec.fg3_pct, rec.fga, rec.fg_pct, rec.fta, rec.ft_pct,
              rec.last5_pts, rec.last5_reb, rec.last5_ast} : v.k = "err"

---------------------------------------------------------------------------
(* One pass of the player loop on its own *)

MaxLogs == 2

SeasonRow(games, points, rebounds, minutes, usage) ==
    [Games |-> games, Points |-> points, Rebounds |-> rebounds,
     Assists |-> Int2(50), Minutes |-> minutes, Steals |-> Int2(10),
     BlockedShots |-> Int2(5), Turnovers |-> Int2(20), UsageRate |-> usage,
     Possessions |-> Absent,
     ThreePointAttempts |-> Int2(40), ThreePointersMade |-> Int2(15),
     FieldGoalsAttempted |-> Int2(200), FieldGoalsMade |-> Int2(90),
     FreeThrowAttempts |-> None, FreeThrowsMade |-> Int2(3)]

\* Ten games; 200, 260 and 320 minutes are 20, 26 and 32 a game.
SeasonVals ==
    {SeasonRow(Int2(10), Int2(250), Int2(80), m, u) :
        m \in {Int2(200), Int2(260), Int2(320)},
        u \in {Int2(20), Int2(22), Int2(28)}}
    \cup {SeasonRow(Int2(10), Int2(200), Int2(80), Int2(320), Int2(28)),
          SeasonRow(Int2(10), Zero, Int2(80), Int2(320), Int2(28))}
    \cup {SeasonRow(gm, Int2(250), Int2(80), Int2(320), Int2(28)) :
            gm \in {Zero, Absent, None, Str}}
    \cup {SeasonRow(Int2(10), p, Int2(80), Int2(320), Int2(28)) :
            p \in {Absent, None, Str}}
    \cup {SeasonRow(Int2(10), Int2(250), None, Int2(320), Int2(28)),
          SeasonRow(Int2(10), Int2(250), Int2(80), None, Int2(28))}
    \cup {SeasonRow(Int2(10), Int2(250), Int2(80), Int2(320), u) :
            u \in {Absent, None, Str}}

LogLine(date, pts, reb, ast) ==
    [Date |-> date, Points |-> pts, Rebounds |-> reb, Assists |-> ast]

LogVals ==
    {LogLine(Day(1), Int2(30), Int2(8), Int2(5)),
     LogLine(Day(1), Int2(10), Int2(8), Int2(5)),
     LogLine(Day(1), None, Int2(8), Int2(5)),
     LogLine(Day(1), Absent, Absent, Absent)}

StandingsRow(key, wins, losses, percentage, pf, pa) ==
    [Key |-> key, Wins |-> wins, Losses |-> losses, Percentage |-> percentage,
     StreakDescription |-> Str, PointsFor |-> pf, PointsAgainst |-> pa,
     ConferenceRank |-> Int2(3), DivisionRank |-> Int2(1)]

Matchup(opp_team, opp_rec, dr, league_avg_pf) ==
    [opp_team |-> opp_team, opp_rec |-> opp_rec, dr |-> dr, avg_pf |-> league_avg_pf]

\* What the lookups can hold for the opponent: no game today; an opponent the
\* standings do not list; an opponent of rank dr whose row has, lacks or nulls
\* Percentage and has or lacks PointsFor (a null PointsFor or Wins raises
\* before the loop, at line 154 or 135).
MatchupVals ==
    {Matchup(NullTeam, EmptyRec, None, Int2(100)),
     Matchup("MIA", EmptyRec, None, Int2(100)),
     Matchup("MIA",
             team_info_entry(StandingsRow("MIA", Zero, Zero, Absent, Absent, Absent)),
             Int2(1), Zero)}
    \cup {Matchup("MIA", team_info_entry(
                     StandingsRow("MIA", Int2(7), Int2(3), pp[1], pp[2], Int2(110))),
                  Int2(dr), Int2(100)) :
            pp \in {<<Rat(7, 10), Int2(100)>>, <<Zero, Int2(300)>>,
                    <<Rat(7, 10), Int2(30)>>, <<Rat(7, 10), Zero>>,
                    <<None, Int2(100)>>, <<Absent, Absent>>},
            dr \in {1, 5, 30, 31}}

TeamRecVals ==
    {team_info_entry(StandingsRow("BOS", Int2(6), Int2(4), Rat(6, 10),
                                  Int2(100), Int2(100)))}

---------------------------------------------------------------------------
(* The game logs of one player: sorted by date (lines 118-119), then the    *)
(* window and its averages and scores (lines 211-247)                      *)

MaxSeasonLogs == 6

WindowLogVals ==
    {LogLine(Day(1), Int2(30), Int2(8), Int2(5)),
     LogLine(Day(2), Int2(10), Int2(8), Zero),
     LogLine(Day(3), Zero, Zero, Zero),
     LogLine(Absent, Absent, Int2(2), Absent),
     LogLine(None, None, Int2(8), Int2(5))}

\* The logs of six games of one player, no two of the same date and one
\* without a date
Last5LogVals ==
    {LogLine(Day(1), Int2(30), Int2(8), Int2(5)),
     LogLine(Day(2), Int2(10), Int2(8), Zero),
     LogLine(Day(3), Zero, Zero, Zero),
     LogLine(Day(4), Int2(20), Int2(4), Absent),
     LogLine(Day(5), Int2(25), Int2(6), Int2(2)),
     LogLine(Absent, Int2(40), Int2(2), Int2(1))}

\* The orders in which a source can supply up to n of the logs of S
OrdersUpTo(S, n) ==
    {s \in SeqsUpTo(S, n) : \A i, j \in 1..Len(s) : i # j => s[i] # s[j]}

\* The season averages the window falls back to when the player has no logs.
WindowSeason == [pts |-> Int2(25), reb |-> Int2(8), ast |-> Int2(5)]

\* The averages trend_label is called with: per-game averages of points,
\* rebounds or assists, none negative; 23 and 17 against 20, 11.5 and 8.5
\* against 10 and 28.75 and 21.25 against 25 are the ratios 0.15 and -0.15.
SeasonAvgVals == {Zero, Rat(1, 2), Int2(8), Int2(10), Int2(20), Int2(25)}

RecentAvgVals ==
    {Zero, Rat(1, 2), Int2(8), Rat(17, 2), Int2(10), Rat(23, 2), Int2(17),
     Int2(20), Rat(85, 4), Int2(23), Int2(24), Rat(115, 4), Int2(30)}

---------------------------------------------------------------------------
(* A run of main: what rosters.json, schedule.json and the feeds can hold *)

MaxStandings == 2

RosterVals ==
    {<<[team |-> "BOS", players |-> <<"A", "B">>],
       [team |-> "MIA", players |-> <<"C">>]>>,
     <<[team |-> "BOS", players |-> <<"A">>],
       [team |-> "NYK", players |-> <<"C">>]>>}

GoodA == SeasonRow(Int2(10), Int2(250), Int2(80), Int2(320), Int2(28))
GoodB == SeasonRow(Int2(10), Int2(200), Int2(80), Int2(260), Int2(22))
GoodC == SeasonRow(Int2(10), Int2(250), Int2(80), Int2(200), Int2(20))

\* The season row of a player who has not played: every total is 0
ZeroGamesRow == [f \in DOMAIN GoodA |-> IF f = "Possessions" THEN Absent ELSE Zero]

GoodSeasonFeed == <<with_name(GoodA, "A"), with_name(GoodB, "B"), with_name(GoodC, "C")>>

\* The season feed: all players, one player, a null Points, a name with a
\* trailing blank, a row without Name, a row with a null Name, no rows, a
\* player with zero games.
SeasonFeeds ==
    {GoodSeasonFeed,
     <<with_name(ZeroGamesRow, "A"), with_name(GoodB, "B")>>,
     <<with_name(GoodA, "A")>>,
     <<with_name(SeasonRow(Int2(10), None, Int2(80), Int2(320), Int2(28)), "A"),
       with_name(GoodB, "B")>>,
     <<with_name(GoodA, "A "), with_name(GoodC, "C")>>,
     <<with_name(GoodA, AbsentName)>>,
     <<with_name(GoodA, NullName), with_name(GoodB, "B")>>,
     <<>>}

GoodLogFeed ==
    <<with_name(LogLine(Day(2), Int2(10), Int2(8), Zero), "A"),
      with_name(LogLine(Day(1), Int2(30), Int2(8), Int2(5)), "A")>>

\* The log feed: none, two logs out of order, a null Date, a log without
\* Name, a null Points, logs of two players.
LogFeeds ==
    {<<>>,
     GoodLogFeed,
     <<with_name(LogLine(None, Int2(30), Int2(8), Int2(5)), "A"),
       with_name(LogLine(Day(1), Int2(30), Int2(8), Int2(5)), "A")>>,
     <<with_name(LogLine(Day(1), Int2(30), Int2(8), Int2(5)), AbsentName)>>,
     <<with_name(LogLine(Day(1), None, Int2(8), Int2(5)), "A")>>,
     <<with_name(LogLine(Day(1), Int2(30), Int2(8), Int2(5)), "B"),
       with_name(LogLine(Day(1), Int2(10), Int2(8), Int2(5)), "A ")>>}

BosAtMia == <<[home |-> "MIA", away |-> "BOS"]>>

\* The day's games: none, one game, a game without its home key, a game
\* with a null home team, a game of teams without a roster.
GameFeeds ==
    {<<>>,
     BosAtMia,
     <<[home |-> "NYK", away |-> "BOS"]>>,
     <<[home |-> AbsentTeam, away |-> "MIA"]>>,
     <<[home |-> NullTeam, away |-> "BOS"]>>,
     <<[home |-> "LAL", away |-> "NYK"]>>,
     <<[home |-> "LAL", away |-> "NYK"], [home |-> "MIA", away |-> "BOS"]>>}

StandingsBos == StandingsRow("BOS", Int2(6), Int2(4), Rat(6, 10), Int2(100), Int2(100))
StandingsMia == StandingsRow("MIA", Int2(7), Int2(3), Rat(7, 10), Int2(100), Int2(110))

\* The rows of the standings: well-formed ones, and rows without
\* Percentage and PointsAgainst, with a null Percentage, Wins, PointsFor or
\* PointsAgainst, and without Key.
StandingsVals ==
    {StandingsBos,
     StandingsMia,
     StandingsRow("NYK", Int2(3), Int2(7), Absent, Int2(120), Absent),
     StandingsRow("MIA", Int2(7), Int2(3), None, Int2(100), Int2(90)),
     StandingsRow("MIA", None, Int2(3), Rat(7, 10), Int2(100), Int2(110)),
     StandingsRow("MIA", Int2(7), Int2(3), Rat(7, 10), None, Int2(110)),
     StandingsRow("MIA", Int2(7), Int2(3), Rat(7, 10), Int2(100), None),
     StandingsRow(AbsentTeam, Int2(7), Int2(3), Rat(7, 10), Int2(100), Int2(110))}

TeamStatFeeds ==
    {<<>>,
     <<TeamRow(NoTeam, Int2(100), Absent), TeamRow("MIA", Absent, Absent),
       TeamRow("NYK", Str, Int2(100)), TeamRow("BOS", Int2(100), Absent)>>,
     <<TeamRow("BOS", Int2(100), Absent), TeamRow("MIA", Int2(134), Absent),
       TeamRow("NYK", Int2(200), Absent)>>,
     <<TeamRow("MIA", Str, Str)>>}

\* One row of season_averages, with the last-5 averages of the same player
BdlRow(games_played, pts, l5_pts) ==
    [season_row |->
        [games_played |-> games_played, pts |-> pts, reb |-> Int2(8),
         ast |-> Int2(5), stl |-> One, blk |-> None, turnover |-> Int2(2),
         fg3a |-> Int2(4), fg3_pct |-> Rat(3, 8), fga |-> Int2(20),
         fg_pct |-> Half, fta |-> Absent, ft_pct |-> Absent],
     last5_row |-> [pts |-> l5_pts, reb |-> Int2(8), ast |-> Int2(5)]]

\* id_by_name_team has no id for the player
Unresolved ==
    [season_row |->
        [games_played |-> Absent, pts |-> Absent, reb |-> Absent,
         ast |-> Absent, stl |-> Absent, blk |-> Absent, turnover |-> Absent,
         fg3a |-> Absent, fg3_pct |-> Absent, fga |-> Absent,
         fg_pct |-> Absent, fta |-> Absent, ft_pct |-> Absent],
     last5_row |-> [pts |-> Absent, reb |-> Absent, ast |-> Absent]]

Players == {"A", "B", "C"}

\* What the BallDontLie API resolves for each player
BdlFeeds ==
    {[n \in Players |-> BdlRow(Int2(10), Int2(25), Int2(20))],
     [n \in Players |-> IF n = "A" THEN Unresolved
                        ELSE BdlRow(Int2(10), Int2(25), Zero)],
     [n \in Players |-> IF n = "A" THEN BdlRow(Int2(10), Str, Int2(20))
                        ELSE BdlRow(None, NumStr(25, 1), Int2(20))]}

---------------------------------------------------------------------------
(* The specifications. Each has variables of its own; the other variables   *)
(* keep their idle values.                                                  *)

NotBuilt == <<>>

IdleDefense ==
    /\ team_stats = <<>>
    /\ defense_table = NotBuilt
    /\ def_pc = "off"

MapResult(raised, m) == [raised |-> raised, map |-> m]

IdleOpp ==
    /\ games_today = <<>>
    /\ opponent_map = MapResult(FALSE, EmptyMap)
    /\ opp_pc = "off"

IdleScore ==
    /\ sc_in = <<>>
    /\ sc_out = <<>>
    /\ sc_pc = "off"

IdleWindow ==
    /\ wn_in = <<>>
    /\ wn_out = <<>>
    /\ wn_pc = "off"

IdleTrend ==
    /\ tr_in = <<>>
    /\ tr_out = ""
    /\ tr_pc = "off"

IdleShift ==
    /\ shift = Zero
    /\ shifted_table = NotBuilt

NoLookups == <<>>

NoPass == [entry |-> <<>>, locals |-> NoLocals]

\* What opening rosters.json and schedule.json and the two fetches of the
\* root main do: open() raises FileNotFoundError for a missing file,
\* json.load raises for an invalid one, raise_for_status for an HTTP error
IoVals ==
    [rosters_file : {"ok", "missing"},
     schedule_file : {"ok", "missing", "invalid"},
     player_fetch : {"ok", "http_error"},
     team_fetch : {"ok", "http_error"}]

IoOk ==
    [rosters_file |-> "ok", schedule_file |-> "ok",
     player_fetch |-> "ok", team_fetch |-> "ok"]

\* load_schedule_for_today that lets FileNotFoundError through
load_schedule_strict(games, schedule_file) ==
    [raised |-> schedule_file # "ok", games |-> games,
     opponent_map |-> opponent_map_guarded(games)]

\* load_schedule_for_today: FileNotFoundError is caught and gives no games
\* and an empty map; any other exception of open or json.load propagates
load_schedule_for_today(games, schedule_file) ==
    CASE schedule_file = "missing" ->
           [raised |-> FALSE, games |-> <<>>, opponent_map |-> EmptyMap]
      [] schedule_file = "invalid" ->
           [raised |-> TRUE, games |-> <<>>, opponent_map |-> EmptyMap]
      [] OTHER ->
           [raised |-> FALSE, games |-> games,
            opponent_map |-> opponent_map_guarded(games)]

\* root main, lines 327-337: load_rosters, load_schedule_for_today,
\* fetch_player_season_stats or fetch_team_season_stats raises
main_loads_raise(games, files) ==
    \/ files.rosters_file # "ok"
    \/ load_schedule_for_today(games, files.schedule_file).raised
    \/ files.player_fetch # "ok"
    \/ files.team_fetch # "ok"

IdleRun ==
    /\ builder = "none"
    /\ io = IoOk
    /\ rosters = <<>>
    /\ season_stats = <<>>
    /\ game_logs = <<>>
    /\ standings = <<>>
    /\ lookups = NoLookups
    /\ todo = <<>>
    /\ last_pass = NoPass
    /\ final = <<>>
    /\ player_stats_json = <<>>
    /\ run_pc = "off"

IdleHttp ==
    /\ responses = <<>>
    /\ attempt = 0
    /\ sent = 0
    /\ outcome = <<>>
    /\ http_pc = "off"

IdlePages ==
    /\ pages = <<>>
    /\ page = 0
    /\ requested = 0
    /\ bdl_rosters = <<>>
    /\ pg_pc = "off"

IdleUsage ==
    /\ us_rows = <<>>
    /\ us_reordered = <<>>
    /\ us_out = <<>>
    /\ us_pc = "off"

IdleSched ==
    /\ raw_schedule = <<>>
    /\ schedule_master = <<>>
    /\ sch_pc = "off"

IdleTools == IdleHttp /\ IdlePages /\ IdleUsage /\ IdleSched

InitDefense ==
    /\ team_stats \in SeqsUpTo(TeamRowVals, MaxRows)
    /\ defense_table = NotBuilt
    /\ def_pc = "input"
    /\ IdleOpp
    /\ IdleScore
    /\ IdleWindow
    /\ IdleTrend
    /\ IdleShift
    /\ IdleRun
    /\ IdleTools

BuildDefense ==
    /\ def_pc = "input"
    /\ \E ups \in SUBSET tie_ranks(team_stats) :
          defense_table' = build_team_defense_table(team_stats, ups)
    /\ def_pc' = "built"
    /\ UNCHANGED <<team_stats, oppVars, scoreVars, windowVars, trendVars, shiftVars, runVars, toolVars>>

NextDefense == BuildDefense

SpecDefense == InitDefense /\ [][NextDefense]_vars

\* Rows whose metrics are equal or apart by 5e-7, less than the floor of
\* the spread
NearRowVals ==
    {TeamRow(t, v, Absent) :
        t \in DefTeams, v \in {Int2(100), Rat(200000001, 2000000)}}
    \cup {TeamRow("MIA", Absent, Absent)}

\* Rows whose metrics are equal or well apart
FarRowVals ==
    {TeamRow(t, v, Absent) :
        t \in DefTeams, v \in {Int2(100), Int2(134), Int2(167)}}
    \cup {TeamRow("MIA", Absent, Absent)}

InitSpread ==
    /\ team_stats \in SeqsUpTo(NearRowVals, MaxRows) \cup SeqsUpTo(FarRowVals, MaxRows)
    /\ defense_table = NotBuilt
    /\ def_pc = "input"
    /\ IdleOpp
    /\ IdleScore
    /\ IdleWindow
    /\ IdleTrend
    /\ IdleShift
    /\ IdleRun
    /\ IdleTools

SpecSpread == InitSpread /\ [][NextDefense]_vars

\* build_team_defense_table is called with the rows and with the rows
\* whose metrics are all raised by the same constant
InitShift ==
    /\ team_stats \in SeqsUpTo(ShiftRowVals, MaxRows)
    /\ shift \in ShiftVals
    /\ defense_table = NotBuilt
    /\ shifted_table = NotBuilt
    /\ def_pc = "input"
    /\ IdleOpp
    /\ IdleScore
    /\ IdleWindow
    /\ IdleTrend
    /\ IdleRun
    /\ IdleTools

BuildShifted ==
    /\ def_pc = "input"
    /\ \E ups \in SUBSET tie_ranks(team_stats) :
          defense_table' = build_team_defense_table(team_stats, ups)
    /\ \E ups \in SUBSET tie_ranks(shift_rows(team_stats, shift)) :
          shifted_table' =
             build_team_defense_table(shift_rows(team_stats, shift), ups)
    /\ def_pc' = "built"
    /\ UNCHANGED <<team_stats, shift, oppVars, scoreVars, windowVars, trendVars,
                   runVars, toolVars>>

NextShift == BuildShifted

SpecShift == InitShift /\ [][NextShift]_vars

InitOpp ==
    /\ games_today \in SeqsUpTo(GameVals, MaxGames)
    /\ opponent_map = MapResult(FALSE, EmptyMap)
    /\ opp_pc = "input"
    /\ IdleDefense
    /\ IdleScore
    /\ IdleWindow
    /\ IdleTrend
    /\ IdleShift
    /\ IdleRun
    /\ IdleTools

\* load_schedule_for_today of the root builder
LoadScheduleRoot ==
    /\ opp_pc = "input"
    /\ opponent_map' = MapResult(FALSE, opponent_map_guarded(games_today))
    /\ opp_pc' = "root"
    /\ UNCHANGED <<games_today, defVars, scoreVars, windowVars, trendVars, shiftVars, runVars, toolVars>>

\* build_opponent_map of the Sportradar builder
BuildOpponentMapSradar ==
    /\ opp_pc = "input"
    /\ opponent_map' = MapResult(FALSE, opponent_map_guarded(games_today))
    /\ opp_pc' = "sradar"
    /\ UNCHANGED <<games_today, defVars, scoreVars, windowVars, trendVars, shiftVars, runVars, toolVars>>

\* the opponent loop of the scoring builder's main
BuildOpponentsScripts ==
    /\ opp_pc = "input"
    /\ opponent_map' =
          IF games_raise(games_today) THEN MapResult(TRUE, EmptyMap)
          ELSE MapResult(FALSE, opponent_map_unguarded(games_today))
    /\ opp_pc' = "scripts"
    /\ UNCHANGED <<games_today, defVars, scoreVars, windowVars, trendVars, shiftVars, runVars, toolVars>>

NextOpp == LoadScheduleRoot \/ BuildOpponentMapSradar \/ BuildOpponentsScripts

SpecOpp == InitOpp /\ [][NextOpp]_vars

InitScore ==
    /\ sc_in \in [team_code : {"BOS"},
                  season_raw : {<<>>} \cup {<<r>> : r \in SeasonVals},
                  logs : SeqsUpTo(LogVals, MaxLogs),
                  team_rec : TeamRecVals,
                  matchup : MatchupVals]
    /\ sc_out = <<>>
    /\ sc_pc = "input"
    /\ IdleDefense
    /\ IdleOpp
    /\ IdleWindow
    /\ IdleTrend
    /\ IdleShift
    /\ IdleRun
    /\ IdleTools

\* One pass of the loop body, lines 167-393
ScorePlayer ==
    /\ sc_pc = "input"
    /\ sc_out' = score_player(sc_in.team_code, sc_in.season_raw, sc_in.logs,
                              sc_in.matchup.opp_team, sc_in.team_rec,
                              sc_in.matchup.opp_rec, sc_in.matchup.dr,
                              sc_in.matchup.avg_pf)
    /\ sc_pc' = "scored"
    /\ UNCHANGED <<sc_in, defVars, oppVars, windowVars, trendVars, shiftVars, runVars, toolVars>>

NextScore == ScorePlayer

SpecScore == InitScore /\ [][NextScore]_vars

InitWindow ==
    /\ wn_in \in SeqsUpTo(WindowLogVals, MaxSeasonLogs)
    /\ wn_out = <<>>
    /\ wn_pc = "input"
    /\ IdleDefense
    /\ IdleOpp
    /\ IdleScore
    /\ IdleTrend
    /\ IdleShift
    /\ IdleRun
    /\ IdleTools

\* The logs of the player are sorted, and the loop body takes its window.
RecentForm ==
    /\ wn_pc = "input"
    /\ wn_out' =
         IF sort_logs_raises(wn_in)
         THEN [raised |-> TRUE, logs |-> <<>>, form |-> <<>>]
         ELSE LET logs == sort_logs(wn_in)
                  form == recent_form(logs, WindowSeason.pts, WindowSeason.reb,
                                      WindowSeason.ast)
              IN  IF \E v \in {form.l5_pts, form.l5_reb, form.l5_ast,
                               form.cons_pts, form.cons_reb, form.cons_ast} :
                        v.k = "err"
                  THEN [raised |-> TRUE, logs |-> logs, form |-> <<>>]
                  ELSE [raised |-> FALSE, logs |-> logs, form |-> form]
    /\ wn_pc' = "done"
    /\ UNCHANGED <<wn_in, defVars, oppVars, scoreVars, trendVars, shiftVars, runVars, toolVars>>

NextWindow == RecentForm

SpecWindow == InitWindow /\ [][NextWindow]_vars

\* The source supplies the logs of a player in some order
InitLast5 ==
    /\ wn_in \in OrdersUpTo(Last5LogVals, MaxSeasonLogs)
    /\ wn_out = <<>>
    /\ wn_pc = "input"
    /\ IdleDefense
    /\ IdleOpp
    /\ IdleScore
    /\ IdleTrend
    /\ IdleShift
    /\ IdleRun
    /\ IdleTools

\* bdl main, lines 214-219 and 247-249: the last-5 averages of one player
Last5Bdl ==
    /\ wn_pc = "input"
    /\ wn_out' =
         LET row == get_last5_averages(wn_in)
         IN  [raised |-> FALSE,
              logs |-> games_sorted_of(wn_in),
              form |-> [last5 |-> row.last5,
                        l5_pts |-> float_or_zero(row.pts),
                        l5_reb |-> float_or_zero(row.reb),
                        l5_ast |-> float_or_zero(row.ast)]]
    /\ wn_pc' = "bdl"
    /\ UNCHANGED <<wn_in, defVars, oppVars, scoreVars, trendVars, shiftVars, runVars, toolVars>>

NextLast5 == RecentForm \/ Last5Bdl

SpecLast5 == InitLast5 /\ [][NextLast5]_vars

\* trend_label is called with a last-5 average and a season average
InitTrend ==
    /\ tr_in \in [last5_val : RecentAvgVals, season_val : SeasonAvgVals]
    /\ tr_out = ""
    /\ tr_pc = "input"
    /\ IdleDefense
    /\ IdleOpp
    /\ IdleScore
    /\ IdleWindow
    /\ IdleShift
    /\ IdleRun
    /\ IdleTools

\* trend_pts = trend_label(l5_pts, season_pts), lines 260-262
TrendLabel ==
    /\ tr_pc = "input"
    /\ tr_out' = trend_label(tr_in.last5_val, tr_in.season_val)
    /\ tr_pc' = "labelled"
    /\ UNCHANGED <<tr_in, defVars, oppVars, scoreVars, windowVars, shiftVars, runVars, toolVars>>

NextTrend == TrendLabel

SpecTrend == InitTrend /\ [][NextTrend]_vars

\* A run starts with what it loads and fetches. The scoring builder runs on
\* every slate and standings of up to MaxStandings rows with well-formed
\* feeds, and on every feed with one slate and well-formed standings.
InitRun ==
    /\ builder \in {"scripts", "root", "bdl"}
    /\ rosters \in RosterVals
    /\ \/ /\ builder = "scripts"
          /\ \/ /\ season_stats = GoodSeasonFeed
                /\ game_logs = GoodLogFeed
                /\ games_today \in GameFeeds
                /\ standings \in SeqsUpTo(StandingsVals, MaxStandings)
             \/ /\ season_stats \in SeasonFeeds
                /\ game_logs \in LogFeeds
                /\ games_today = BosAtMia
                /\ standings = <<StandingsBos, StandingsMia>>
          /\ team_stats = <<>>
       \/ /\ builder = "root"
          /\ season_stats \in SeasonFeeds
          /\ games_today \in GameFeeds
          /\ team_stats \in TeamStatFeeds
          /\ game_logs = <<>>
          /\ standings = <<>>
       \/ /\ builder = "bdl"
          /\ season_stats \in BdlFeeds
          /\ games_today \in GameFeeds
          /\ team_stats = <<>>
          /\ game_logs = <<>>
          /\ standings = <<>>
    /\ io = IoOk
    /\ lookups = NoLookups
    /\ todo = <<>>
    /\ last_pass = NoPass
    /\ final = <<>>
    /\ player_stats_json = <<>>
    /\ run_pc = "start"
    /\ defense_table = NotBuilt
    /\ def_pc = "off"
    /\ opponent_map = MapResult(FALSE, EmptyMap)
    /\ opp_pc = "off"
    /\ IdleScore
    /\ IdleWindow
    /\ IdleTrend
    /\ IdleShift
    /\ IdleTools

runIdle == <<defVars, oppVars, scoreVars, windowVars, trendVars, shiftVars, toolVars>>

\* A file that does not open or a request that fails (raise_for_status)
\* ends the run before it builds anything.
LoadOrFetchFails ==
    /\ run_pc = "start"
    /\ run_pc' = "fetch_failed"
    /\ UNCHANGED <<runInputs, lookups, runLoop, player_stats_json, runIdle>>

\* scripts main, lines 110-163: the lookups, then final = {}
BuildLookups ==
    /\ run_pc = "start"
    /\ builder = "scripts"
    /\ IF lookups_raise(season_stats, game_logs, games_today, standings)
       THEN /\ run_pc' = "failed"
            /\ UNCHANGED <<lookups, todo>>
       ELSE /\ lookups' = [season_by_name |-> season_by_name_of(season_stats),
                           logs_by_name |-> logs_by_name_of(game_logs),
                           opponents |-> opponent_map_unguarded(games_today),
                           team_info |-> team_info_of(standings),
                           def_rank |-> def_rank_of(standings),
                           avg_pf |-> avg_pf_of(standings)]
            /\ todo' = roster_entries(rosters)
            /\ run_pc' = "loop"
    /\ UNCHANGED <<runInputs, last_pass, final, player_stats_json, runIdle>>

\* scripts main, lines 165-393: one pass of the player loop
ScoreNext ==
    /\ run_pc = "loop"
    /\ builder = "scripts"
    /\ todo # <<>>
    /\ LET e == Head(todo)
           res == score_entry(e, lookups.season_by_name, lookups.logs_by_name,
                              lookups.opponents, lookups.team_info,
                              lookups.def_rank, lookups.avg_pf)
       IN  IF res.raised
           THEN /\ run_pc' = "failed"
                /\ UNCHANGED <<todo, last_pass, final>>
           ELSE /\ final' = put(final, e.name, res.record)
                /\ last_pass' = [entry |-> e, locals |-> res.locals]
                /\ todo' = Tail(todo)
                /\ UNCHANGED run_pc
    /\ UNCHANGED <<runInputs, lookups, player_stats_json, runIdle>>

\* scripts main, lines 396-397: json.dump(final, f)
WriteScripts ==
    /\ run_pc = "loop"
    /\ builder = "scripts"
    /\ todo = <<>>
    /\ player_stats_json' = Append(player_stats_json, final)
    /\ run_pc' = "done"
    /\ UNCHANGED <<runInputs, lookups, runLoop, runIdle>>

\* root main, lines 327-338, and build_player_stats up to final = {}
BuildTablesRoot ==
    /\ run_pc = "start"
    /\ builder = "root"
    /\ \E ups \in SUBSET tie_ranks(team_stats) :
          lookups' = [opponent_map |-> opponent_map_guarded(games_today),
                      defense_table |-> build_team_defense_table(team_stats, ups),
                      player_lookup |-> player_lookup_of(season_stats)]
    /\ todo' = roster_entries(rosters)
    /\ run_pc' = "loop"
    /\ UNCHANGED <<runInputs, last_pass, final, player_stats_json, runIdle>>

\* build_player_stats: one pass of the player loop
RootNext ==
    /\ run_pc = "loop"
    /\ builder = "root"
    /\ todo # <<>>
    /\ final' = put(final, Head(todo).name,
                    root_entry(Head(todo), lookups.player_lookup,
                               lookups.defense_table, lookups.opponent_map))
    /\ last_pass' = [entry |-> Head(todo), locals |-> NoLocals]
    /\ todo' = Tail(todo)
    /\ UNCHANGED <<runInputs, lookups, player_stats_json, run_pc, runIdle>>

\* root main, lines 342-343: json.dump(final_stats, f)
WriteRoot ==
    /\ run_pc = "loop"
    /\ builder = "root"
    /\ todo = <<>>
    /\ player_stats_json' = Append(player_stats_json, final)
    /\ run_pc' = "done"
    /\ UNCHANGED <<runInputs, lookups, runLoop, runIdle>>

\* bdl main, lines 167-172: no games today, an empty file is written
WriteEmptyBdl ==
    /\ run_pc = "start"
    /\ builder = "bdl"
    /\ games_today = <<>>
    /\ player_stats_json' = Append(player_stats_json, <<>>)
    /\ run_pc' = "done"
    /\ UNCHANGED <<runInputs, lookups, runLoop, runIdle>>

\* bdl main, lines 174-221: the teams that play, their players
PlayerEntriesBdl ==
    /\ run_pc = "start"
    /\ builder = "bdl"
    /\ games_today # <<>>
    /\ IF bdl_games_raise(games_today)
       THEN /\ run_pc' = "failed"
            /\ UNCHANGED <<lookups, todo>>
       ELSE /\ lookups' = [opponent_map |-> opponent_map_unguarded(games_today)]
            /\ todo' = player_entries_of(rosters, games_today)
            /\ run_pc' = "loop"
    /\ UNCHANGED <<runInputs, last_pass, final, player_stats_json, runIdle>>

\* bdl main, lines 223-291: one pass of the loop over player_entries
BdlNext ==
    /\ run_pc = "loop"
    /\ builder = "bdl"
    /\ todo # <<>>
    /\ LET e == Head(todo)
           rec == bdl_record(e.team_code, season_stats[e.name].season_row,
                             season_stats[e.name].last5_row,
                             team_get(lookups.opponent_map, e.team_code))
       IN  IF bdl_record_raises(rec)
           THEN /\ run_pc' = "failed"
                /\ UNCHANGED <<todo, last_pass, final>>
           ELSE /\ final' = put(final, e.name, rec)
                /\ last_pass' = [entry |-> e, locals |-> NoLocals]
                /\ todo' = Tail(todo)
                /\ UNCHANGED run_pc
    /\ UNCHANGED <<runInputs, lookups, player_stats_json, runIdle>>

\* bdl main, lines 293-294: json.dump(final, f)
WriteBdl ==
    /\ run_pc = "loop"
    /\ builder = "bdl"
    /\ todo = <<>>
    /\ player_stats_json' = Append(player_stats_json, final)
    /\ run_pc' = "done"
    /\ UNCHANGED <<runInputs, lookups, runLoop, runIdle>>

Next ==
    \/ LoadOrFetchFails
    \/ BuildLookups \/ ScoreNext \/ WriteScripts
    \/ BuildTablesRoot \/ RootNext \/ WriteRoot
    \/ WriteEmptyBdl \/ PlayerEntriesBdl \/ BdlNext \/ WriteBdl

Spec == InitRun /\ [][Next]_vars

\* A run of the root main in which a file can be missing or invalid and a
\* fetch can fail
InitMain ==
    /\ builder = "root"
    /\ io \in IoVals
    /\ rosters \in RosterVals
    /\ season_stats \in SeasonFeeds
    /\ games_today \in GameFeeds
    /\ team_stats \in TeamStatFeeds
    /\ game_logs = <<>>
    /\ standings = <<>>
    /\ lookups = NoLookups
    /\ todo = <<>>
    /\ last_pass = NoPass
    /\ final = <<>>
    /\ player_stats_json = <<>>
    /\ run_pc = "start"
    /\ defense_table = NotBuilt
    /\ def_pc = "off"
    /\ opponent_map = MapResult(FALSE, EmptyMap)
    /\ opp_pc = "off"
    /\ IdleScore
    /\ IdleWindow
    /\ IdleTrend
    /\ IdleShift
    /\ IdleTools

\* root main, lines 327-338, and build_player_stats up to final = {}
MainLoads ==
    /\ run_pc = "start"
    /\ builder = "root"
    /\ IF main_loads_raise(games_today, io)
       THEN /\ run_pc' = "failed"
            /\ UNCHANGED <<lookups, todo>>
       ELSE /\ \E ups \in SUBSET tie_ranks(team_stats) :
                  lookups' =
                     [opponent_map |->
                         load_schedule_for_today(games_today,
                                                 io.schedule_file).opponent_map,
                      defense_table |-> build_team_defense_table(team_stats, ups),
                      player_lookup |-> player_lookup_of(season_stats)]
            /\ todo' = roster_entries(rosters)
            /\ run_pc' = "loop"
    /\ UNCHANGED <<runInputs, last_pass, final, player_stats_json, runIdle>>

NextMain == MainLoads \/ RootNext \/ WriteRoot

SpecMain == InitMain /\ [][NextMain]_vars

---------------------------------------------------------------------------
(* fetch_nba_json, src/scripts/build_player_stats_nba.py, and sr_get,      *)
(* src/scripts/build_player_stats_sradar.py: the retry loops               *)

\* for attempt in range(3)
NBA_ATTEMPTS == 3

\* What requests.get does with the n-th request: a response with a status
\* code, whose body is told from the others by n, or an exception
Response(status, n) ==
    [kind |-> "response", status |-> status, body |-> <<"json", n>>]

RequestFails(n) == [kind |-> "exception", status |-> 0, body |-> <<>>]

\* None
NoValue == <<>>

\* resp.raise_for_status() raises HTTPError for a 4xx or 5xx status
raises_for_status(resp) == resp.status >= 400

\* nba_backs_off without the bound on the attempt
nba_backs_off_always(resp, n) == resp.status = 429

\* resp.status_code == 429 and attempt < 2
nba_backs_off(resp, n) == resp.status = 429 /\ n < 2

\* One pass of the loop of fetch_nba_json: continue, raise, or return
nba_iteration(resp, n) ==
    IF resp.kind = "exception"
    THEN [next |-> "raised", value |-> <<"RequestException">>]
    ELSE IF nba_backs_off(resp, n) THEN [next |-> "continue", value |-> NoValue]
    ELSE IF raises_for_status(resp) THEN [next |-> "raised", value |-> <<"HTTPError">>]
    ELSE [next |-> "returned", value |-> resp.body]

\* The statement after the loop, resp.raise_for_status(), and the end of
\* the function after it, which returns None
nba_after_loop(resp) ==
    IF raises_for_status(resp)
    THEN [how |-> "raised", value |-> <<"HTTPError">>, after_loop |-> TRUE]
    ELSE [how |-> "returned", value |-> NoValue, after_loop |-> TRUE]

NbaStatusVals == {200, 404, 429, 500}

InitNba ==
    /\ \E st \in [1..NBA_ATTEMPTS -> NbaStatusVals \cup {0}] :
          responses = [n \in 1..NBA_ATTEMPTS |->
                          IF st[n] = 0 THEN RequestFails(n) ELSE Response(st[n], n)]
    /\ attempt = 0
    /\ sent = 0
    /\ outcome = <<>>
    /\ http_pc = "loop"
    /\ IdleDefense
    /\ IdleOpp
    /\ IdleScore
    /\ IdleWindow
    /\ IdleTrend
    /\ IdleShift
    /\ IdleRun
    /\ IdlePages
    /\ IdleUsage
    /\ IdleSched

exceptUsage == <<defVars, oppVars, scoreVars, windowVars, trendVars, shiftVars, runVars, httpVars, pageVars, schedVars>>

exceptPages == <<defVars, oppVars, scoreVars, windowVars, trendVars, shiftVars, runVars, httpVars, usageVars, schedVars>>

exceptHttp == <<defVars, oppVars, scoreVars, windowVars, trendVars, shiftVars, runVars, pageVars, usageVars, schedVars>>

\* fetch_nba_json, lines 57-70: one request and what the loop does with
\* its response
NbaAttempt ==
    /\ http_pc = "loop"
    /\ attempt < NBA_ATTEMPTS
    /\ sent' = sent + 1
    /\ LET resp == responses[sent + 1]
           it == nba_iteration(resp, attempt)
       IN  IF it.next = "continue"
           THEN /\ attempt' = attempt + 1
                /\ IF attempt + 1 < NBA_ATTEMPTS
                   THEN UNCHANGED <<outcome, http_pc>>
                   ELSE /\ outcome' = nba_after_loop(resp)
                        /\ http_pc' = nba_after_loop(resp).how
           ELSE /\ outcome' = [how |-> it.next, value |-> it.value,
                               after_loop |-> FALSE]
                /\ http_pc' = it.next
                /\ UNCHANGED attempt
    /\ UNCHANGED <<responses, exceptHttp>>

NextNba == NbaAttempt

SpecNba == InitNba /\ [][NextNba]_vars

\* sr_get: for attempt in range(3)
SR_ATTEMPTS == 3

\* sr_reraises that swallows the exception of the last attempt too
sr_reraises_never(n) == FALSE

\* if attempt == 2: raise
sr_reraises(n) == n = 2

\* One pass of the loop of sr_get. A 5xx is retried without raising; an
\* exception of requests.get and the HTTPError of raise_for_status are
\* both RequestExceptions and reach the except clause.
sr_iteration(resp, n) ==
    IF resp.kind = "exception"
    THEN IF sr_reraises(n)
         THEN [next |-> "raised", value |-> <<"RequestException">>]
         ELSE [next |-> "continue", value |-> NoValue]
    ELSE IF resp.status >= 500 THEN [next |-> "continue", value |-> NoValue]
    ELSE IF raises_for_status(resp)
    THEN IF sr_reraises(n)
         THEN [next |-> "raised", value |-> <<"HTTPError">>]
         ELSE [next |-> "continue", value |-> NoValue]
    ELSE [next |-> "returned", value |-> resp.body]

SrStatusVals == {200, 404, 500, 503}

InitSr ==
    /\ \E st \in [1..SR_ATTEMPTS -> SrStatusVals \cup {0}] :
          responses = [n \in 1..SR_ATTEMPTS |->
                          IF st[n] = 0 THEN RequestFails(n) ELSE Response(st[n], n)]
    /\ attempt = 0
    /\ sent = 0
    /\ outcome = <<>>
    /\ http_pc = "loop"
    /\ IdleDefense
    /\ IdleOpp
    /\ IdleScore
    /\ IdleWindow
    /\ IdleTrend
    /\ IdleShift
    /\ IdleRun
    /\ IdlePages
    /\ IdleUsage
    /\ IdleSched

\* sr_get, lines 50-64: one request and what the loop does with it
SrAttempt ==
    /\ http_pc = "loop"
    /\ attempt < SR_ATTEMPTS
    /\ sent' = sent + 1
    /\ LET it == sr_iteration(responses[sent + 1], attempt)
       IN  IF it.next = "continue"
           THEN /\ attempt' = attempt + 1
                /\ UNCHANGED <<outcome, http_pc>>
           ELSE /\ outcome' = [how |-> it.next, value |-> it.value,
                               after_loop |-> FALSE]
                /\ http_pc' = it.next
                /\ UNCHANGED attempt
    /\ UNCHANGED <<responses, exceptHttp>>

\* sr_get, lines 65-66: raise RuntimeError after the loop
SrAfterLoop ==
    /\ http_pc = "loop"
    /\ attempt = SR_ATTEMPTS
    /\ outcome' = [how |-> "raised", value |-> <<"RuntimeError">>,
                   after_loop |-> TRUE]
    /\ http_pc' = "raised"
    /\ UNCHANGED <<responses, attempt, sent, exceptHttp>>

NextSr == SrAttempt \/ SrAfterLoop

SpecSr == InitSr /\ [][NextSr]_vars

---------------------------------------------------------------------------
(* fetch_rosters_from_bdl, src/scripts/build_rosters_bdl.py                *)

NBA_TEAMS ==
    {"ATL", "BOS", "BKN", "CHA", "CHI", "CLE",
     "DAL", "DEN", "DET", "GSW", "HOU", "IND",
     "LAC", "LAL", "MEM", "MIA", "MIL", "MIN",
     "NOP", "NYK", "OKC", "ORL", "PHI", "PHX",
     "POR", "SAC", "SAS", "TOR", "UTA", "WAS"}

\* A str is the sequence of its characters. The characters of the names,
\* in the order of their code points
Chars == <<" ", "A", "B", "C", "D">>

ord(c) == CHOOSE i \in 1..Len(Chars) : Chars[i] = c

\* A first_name or last_name that is null or absent
NullStr == <<"<null>">>

\* p.get("first_name") or ""
str_or_empty(s) == IF s = NullStr THEN <<>> ELSE s

RECURSIVE lstrip(_)
lstrip(s) == IF s # <<>> /\ s[1] = " " THEN lstrip(Tail(s)) ELSE s

RECURSIVE rstrip(_)
rstrip(s) ==
    IF s # <<>> /\ s[Len(s)] = " " THEN rstrip(SubSeq(s, 1, Len(s) - 1)) ELSE s

\* s.strip()
str_strip(s) == rstrip(lstrip(s))

\* s < t, as Python compares two str
RECURSIVE str_lt(_, _)
str_lt(s, t) ==
    IF t = <<>> THEN FALSE
    ELSE IF s = <<>> THEN TRUE
    ELSE IF s[1] = t[1] THEN str_lt(Tail(s), Tail(t))
    ELSE ord(s[1]) < ord(t[1])

\* full_name = f"{first} {last}".strip() for the stripped first and last
full_name_of(p) ==
    str_strip(str_strip(str_or_empty(p.first_name)) \o <<" ">>
              \o str_strip(str_or_empty(p.last_name)))

\* (p.get("team") or {}).get("abbreviation"): None without a team
abbr_of(p) == p.team

in_list(name, list) == \E i \in 1..Len(list) : list[i] = name

\* add_player without the test `full_name not in rosters[abbr]`
add_player_again(rs, p) ==
    IF abbr_of(p) \notin NBA_TEAMS THEN rs
    ELSE IF full_name_of(p) # <<>>
    THEN [rs EXCEPT ![abbr_of(p)] = Append(@, full_name_of(p))]
    ELSE rs

\* The body of `for p in players`, lines 104-115
add_player(rs, p) ==
    IF abbr_of(p) \notin NBA_TEAMS THEN rs
    ELSE IF full_name_of(p) # <<>> /\ ~in_list(full_name_of(p), rs[abbr_of(p)])
    THEN [rs EXCEPT ![abbr_of(p)] = Append(@, full_name_of(p))]
    ELSE rs

RECURSIVE add_players(_, _)
add_players(rs, players) ==
    IF players = <<>> THEN rs
    ELSE add_player(add_players(rs, SubSeq(players, 1, Len(players) - 1)),
                    players[Len(players)])

\* name put after every element of the sorted list that is <= name
RECURSIVE insert_name(_, _)
insert_name(list, name) ==
    IF list = <<>> THEN <<name>>
    ELSE IF ~str_lt(name, list[Len(list)]) THEN Append(list, name)
    ELSE Append(insert_name(SubSeq(list, 1, Len(list) - 1), name), list[Len(list)])

\* rosters[abbr].sort()
RECURSIVE sort_names(_)
sort_names(list) ==
    IF list = <<>> THEN <<>>
    ELSE insert_name(sort_names(SubSeq(list, 1, Len(list) - 1)), list[Len(list)])

\* for abbr in sorted(rosters.keys()): rosters[abbr].sort()
sort_rosters(rs) == [abbr \in DOMAIN rs |-> sort_names(rs[abbr])]

\* `if not next_page: break`: the loop goes on for a next_page that is a
\* number other than 0
has_next_page(next_page) == next_page.k = "num" /\ next_page.n # 0

BdlPlayer(team, first, last) ==
    [team |-> team, first_name |-> first, last_name |-> last]

\* One answer of /players: data, and next_page of meta
BdlPage(players, next_page) == [data |-> players, next_page |-> next_page]

\* The last page ends the pagination
ends_pagination(pg) == pg.data = <<>> \/ ~has_next_page(pg.next_page)

\* Pages with: a player twice, once with blanks around the names; players
\* of a team that is not in NBA_TEAMS and of no team; a player without
\* names and one with a last name only; the same name in two teams; names
\* out of order; no next_page, a null next_page, a next_page that points
\* back to page 1; an empty page.
BdlPageVals ==
    {BdlPage(<<BdlPlayer("BOS", <<"A">>, <<"C">>),
               BdlPlayer("XXX", <<"D">>, <<"D">>),
               BdlPlayer("LAL", <<"A">>, <<"C">>)>>, Int2(2)),
     BdlPage(<<BdlPlayer("BOS", <<" ", "A">>, <<"C", " ">>),
               BdlPlayer("BOS", <<"A">>, <<"B">>)>>, Int2(3)),
     BdlPage(<<BdlPlayer("LAL", <<>>, NullStr),
               BdlPlayer(NullTeam, <<"D">>, <<"D">>),
               BdlPlayer("LAL", NullStr, <<"D">>)>>, Absent),
     BdlPage(<<BdlPlayer("BOS", <<"A">>, <<"B">>),
               BdlPlayer("BOS", <<"A">>, <<"C">>)>>, None),
     BdlPage(<<BdlPlayer("LAL", NullStr, <<"D">>),
               BdlPlayer("BOS", <<"A">>, <<"C">>)>>, Int2(1)),
     BdlPage(<<>>, Int2(2))}

MaxPages == 3

InitPages ==
    /\ pages \in {s \in SeqsUpTo(BdlPageVals, MaxPages) :
                    s # <<>> /\ ends_pagination(s[Len(s)])}
    /\ page = 1
    /\ requested = 0
    /\ bdl_rosters = [abbr \in NBA_TEAMS |-> <<>>]
    /\ pg_pc = "loop"
    /\ IdleDefense
    /\ IdleOpp
    /\ IdleScore
    /\ IdleWindow
    /\ IdleTrend
    /\ IdleShift
    /\ IdleRun
    /\ IdleHttp
    /\ IdleUsage
    /\ IdleSched

\* One pass of `while True`, lines 89-120, and, when it breaks, the sort
\* of lines 123-126
FetchPage ==
    /\ pg_pc = "loop"
    /\ requested < Len(pages)
    /\ requested' = requested + 1
    /\ LET data == pages[requested + 1]
       IN  IF data.data = <<>>
           THEN /\ bdl_rosters' = sort_rosters(bdl_rosters)
                /\ pg_pc' = "returned"
                /\ UNCHANGED page
           ELSE IF has_next_page(data.next_page)
           THEN /\ bdl_rosters' = add_players(bdl_rosters, data.data)
                /\ page' = data.next_page.n
                /\ UNCHANGED pg_pc
           ELSE /\ bdl_rosters' = sort_rosters(add_players(bdl_rosters, data.data))
                /\ pg_pc' = "returned"
                /\ UNCHANGED page
    /\ UNCHANGED <<pages, exceptPages>>

NextPages == FetchPage

SpecPages == InitPages /\ [][NextPages]_vars

---------------------------------------------------------------------------
(* parse_advanced_usage, src/scripts/update_player_stats.py                *)

\* One tr of the advanced table: whether its class has "thead", the text
\* of its player and team_id cells (absent without the cell), and the
\* text of its usg_pct cell: a number, a text that is none, or no cell
UsageRow(thead, player, team, usg) ==
    [thead |-> thead, player |-> player, team |-> team, usg |-> usg]

\* _get_float: None for no cell, "", "NA" and a text float() rejects
get_float(txt) == IF txt.k = "num" THEN txt ELSE None

\* The row is skipped: a header row, a row without the player or the team
\* cell, a row without a usage
usage_row_skipped(row) ==
    \/ row.thead
    \/ row.player = AbsentName
    \/ row.team = AbsentTeam
    \/ get_float(row.usg) = None

\* usage_row without setdefault: every row overwrites
usage_row_overwrites(m, row) ==
    IF usage_row_skipped(row) THEN m ELSE put(m, row.player, get_float(row.usg))

\* The body of `for row in rows`, lines 164-182: a TOT row overwrites, any
\* other row sets the usage only when the name has none
usage_row(m, row) ==
    IF usage_row_skipped(row) THEN m
    ELSE IF row.team = "TOT" THEN put(m, row.player, get_float(row.usg))
    ELSE IF row.player \in DOMAIN m THEN m
    ELSE put(m, row.player, get_float(row.usg))

\* usage_by_name after the loop over rows
RECURSIVE usage_by_name_of(_)
usage_by_name_of(rows) ==
    IF rows = <<>> THEN EmptyMap
    ELSE usage_row(usage_by_name_of(SubSeq(rows, 1, Len(rows) - 1)),
                   rows[Len(rows)])

\* Rows of player A with three teams, a TOT row with and without a usage,
\* a row of player B, a header row and a row without team cell
UsageRowVals ==
    {UsageRow(FALSE, "A", "TOT", Int2(30)),
     UsageRow(FALSE, "A", "TOT", Str),
     UsageRow(FALSE, "A", "LAL", Int2(20)),
     UsageRow(FALSE, "A", "BOS", Int2(25)),
     UsageRow(FALSE, "A", "MIA", Absent),
     UsageRow(FALSE, "B", "LAL", Int2(20)),
     UsageRow(TRUE, "A", "LAL", Int2(10)),
     UsageRow(FALSE, "A", AbsentTeam, Int2(10))}

MaxUsageRows == 3

\* The orders of the rows of s
Reorderings(s) ==
    {[i \in 1..Len(s) |-> s[f[i]]] :
        f \in {g \in [1..Len(s) -> 1..Len(s)] :
                  \A i, j \in 1..Len(s) : i # j => g[i] # g[j]}}

InitUsage ==
    /\ us_rows \in SeqsUpTo(UsageRowVals, MaxUsageRows)
    /\ us_reordered \in Reorderings(us_rows)
    /\ us_out = <<>>
    /\ us_pc = "input"
    /\ IdleDefense
    /\ IdleOpp
    /\ IdleScore
    /\ IdleWindow
    /\ IdleTrend
    /\ IdleShift
    /\ IdleRun
    /\ IdleHttp
    /\ IdlePages
    /\ IdleSched

\* parse_advanced_usage on the rows, and on the rows in the other order
ParseUsage ==
    /\ us_pc = "input"
    /\ us_out' = [rows |-> usage_by_name_of(us_rows),
                  reordered |-> usage_by_name_of(us_reordered)]
    /\ us_pc' = "parsed"
    /\ UNCHANGED <<us_rows, us_reordered, exceptUsage>>

NextUsage == ParseUsage

SpecUsage == InitUsage /\ [][NextUsage]_vars

---------------------------------------------------------------------------
(* scripts/build_master_schedule_sportradar.py and                         *)
(* scripts/build_master_schedule_nba.py: schedule_master.json. Dates and   *)
(* ids are strings; a missing or null date is "", falsy like None.         *)

\* raw_date[:10]
first_ten(s) == IF Len(s) <= 10 THEN s ELSE SubSeq(s, 1, 10)

\* game_date.replace("-", "")
RECURSIVE compact_of(_)
compact_of(s) ==
    IF Len(s) = 0 THEN ""
    ELSE (IF SubSeq(s, 1, 1) = "-" THEN "" ELSE SubSeq(s, 1, 1))
         \o compact_of(SubSeq(s, 2, Len(s)))

\* f"{index_for_day:03d}"
zero_padded(n) ==
    IF n < 10 THEN "00" \o ToString(n)
    ELSE IF n < 100 THEN "0" \o ToString(n)
    ELSE ToString(n)

\* build_internal_game_id: g_YYYYMMDD_NNN
build_internal_game_id(game_date, index_for_day) ==
    "g_" \o compact_of(game_date) \o "_" \o zero_padded(index_for_day)

\* raw_date[:10] if raw_date else None
sr_game_date(g) == first_ten(g.scheduled)

\* normalize_games, lines 38-88: the loop over raw_games from game i on,
\* with last_date and index_for_day as the loop left them
RECURSIVE normalize_from(_, _, _, _)
normalize_from(raw_games, i, last_date, index_for_day) ==
    IF i > Len(raw_games) THEN <<>>
    ELSE LET g == raw_games[i]
             game_date == sr_game_date(g)
             index == IF game_date # last_date THEN 1 ELSE index_for_day + 1
         IN  IF game_date = ""
             THEN normalize_from(raw_games, i + 1, last_date, index_for_day)
             ELSE <<[internal_id |-> build_internal_game_id(game_date, index),
                     sr_game_id |-> g.id,
                     game_date |-> game_date,
                     home_team_abbr |-> g.home,
                     away_team_abbr |-> g.away]>>
                  \o normalize_from(raw_games, i + 1, game_date, index)

normalize_games(raw_games) == normalize_from(raw_games, 1, "", 0)

\* build_master_schedule of the Sportradar builder, lines 99-102
sr_master_schedule(reg_games, pst_games) ==
    normalize_games(reg_games) \o normalize_games(pst_games)

\* lines 28-32 of the NBA.com builder: gameDate, else the first ten
\* characters of gameDateEst or gameDateUTC
nba_game_date(gd) ==
    IF gd.gameDate # "" THEN gd.gameDate
    ELSE IF gd.gameDateEst # "" THEN first_ten(gd.gameDateEst)
    ELSE first_ten(gd.gameDateUTC)

\* lines 53-58: the status text of the feed, else "Scheduled"
nba_status(g) == IF g.gameStatusText # "" THEN g.gameStatusText ELSE "Scheduled"

\* lines 37-81: the games of one gameDates entry
nba_games_of(game_date, games) ==
    [n \in 1..Len(games) |->
        [game_id |-> build_internal_game_id(game_date, n),
         game_date |-> game_date,
         home_team_abbr |-> games[n].home,
         away_team_abbr |-> games[n].away,
         nba_game_id |-> games[n].gameId,
         status |-> nba_status(games[n])]]

\* build_master_schedule of the NBA.com builder, lines 25-81, from entry i on
RECURSIVE nba_master_from(_, _)
nba_master_from(game_dates, i) ==
    IF i > Len(game_dates) THEN <<>>
    ELSE LET gd == game_dates[i]
             game_date == nba_game_date(gd)
         IN  (IF game_date = "" THEN <<>> ELSE nba_games_of(game_date, gd.games))
             \o nba_master_from(game_dates, i + 1)

nba_master_schedule(game_dates) == nba_master_from(game_dates, 1)

SrGame(id, scheduled, home, away) ==
    [id |-> id, scheduled |-> scheduled, home |-> home, away |-> away]

SrGameVals ==
    { SrGame("sr1", "2025-10-21T23:30:00Z", "BOS", "NYK"),
      SrGame("sr2", "2025-10-21T02:00:00Z", "LAL", "GSW"),
      SrGame("sr3", "2025-10-22T23:00:00Z", "MIA", "ORL"),
      SrGame("sr4", "", "DEN", "PHX") }

PstGameVals ==
    { SrGame("sr8", "2025-10-21T23:30:00Z", "BOS", "MIA"),
      SrGame("sr9", "2026-04-18T17:00:00Z", "DEN", "LAL") }

NbaGame(gameId, home, away, gameStatusText) ==
    [gameId |-> gameId, home |-> home, away |-> away,
     gameStatusText |-> gameStatusText]

GameDate(gameDate, gameDateEst, gameDateUTC, games) ==
    [gameDate |-> gameDate, gameDateEst |-> gameDateEst,
     gameDateUTC |-> gameDateUTC, games |-> games]

GameDateVals ==
    { GameDate("2025-10-21", "", "",
               <<NbaGame("n1", "BOS", "NYK", "Final"),
                 NbaGame("n2", "LAL", "GSW", "")>>),
      GameDate("", "2025-10-21T00:00:00Z", "",
               <<NbaGame("n3", "MIA", "ORL", "")>>),
      GameDate("", "", "2025-10-22T00:00:00Z",
               <<NbaGame("n4", "DEN", "PHX", "")>>),
      GameDate("10/23/2025 00:00:00", "2025-10-23T00:00:00Z", "",
               <<NbaGame("n5", "DAL", "SAS", "7:30 pm ET")>>),
      GameDate("", "", "", <<NbaGame("n6", "UTA", "POR", "")>>),
      GameDate("2025-10-24", "", "", <<>>) }

MaxSched == 3

MaxPst == 1

\* What the feeds return: the two Sportradar lists, or the gameDates of
\* NBA.com; fetch "fails" when raise_for_status raises
ScheduleFeeds ==
    {[source |-> "sportradar", fetch |-> f, reg |-> r, pst |-> p, dates |-> <<>>] :
        f \in {"ok", "fails"}, r \in SeqsUpTo(SrGameVals, MaxSched),
        p \in SeqsUpTo(PstGameVals, MaxPst)}
    \cup
    {[source |-> "nba", fetch |-> f, reg |-> <<>>, pst |-> <<>>, dates |-> d] :
        f \in {"ok", "fails"}, d \in SeqsUpTo(GameDateVals, MaxSched)}

InitSched ==
    /\ raw_schedule \in ScheduleFeeds
    /\ schedule_master = <<>>
    /\ sch_pc = "input"
    /\ IdleDefense
    /\ IdleOpp
    /\ IdleScore
    /\ IdleWindow
    /\ IdleTrend
    /\ IdleShift
    /\ IdleRun
    /\ IdleHttp
    /\ IdlePages
    /\ IdleUsage

exceptSched == <<defVars, oppVars, scoreVars, windowVars, trendVars, shiftVars, runVars, httpVars, pageVars, usageVars>>

\* build_master_schedule of build_master_schedule_sportradar.py
BuildSportradar ==
    /\ sch_pc = "input"
    /\ raw_schedule.source = "sportradar"
    /\ IF raw_schedule.fetch = "fails"
       THEN /\ sch_pc' = "raised"
            /\ UNCHANGED schedule_master
       ELSE /\ schedule_master' = sr_master_schedule(raw_schedule.reg, raw_schedule.pst)
            /\ sch_pc' = "sportradar"
    /\ UNCHANGED <<raw_schedule, exceptSched>>

\* build_master_schedule of build_master_schedule_nba.py
BuildNba ==
    /\ sch_pc = "input"
    /\ raw_schedule.source = "nba"
    /\ IF raw_schedule.fetch = "fails"
       THEN /\ sch_pc' = "raised"
            /\ UNCHANGED schedule_master
       ELSE /\ schedule_master' = nba_master_schedule(raw_schedule.dates)
            /\ sch_pc' = "nba"
    /\ UNCHANGED <<raw_schedule, exceptSched>>

NextSched == BuildSportradar \/ BuildNba

SpecSched == InitSched /\ [][NextSched]_vars

---------------------------------------------------------------------------
(* Claims *)

\* C1: every entry of the table build_team_defense_table returns has
\* score_0_100 in [0,100] and a tier among green, yellow and red, with red
\* iff score >= 66, yellow iff 33 <= score < 66, and green iff score < 33.
C1_ScoreAndTier ==
    def_pc = "built" =>
        \A team \in DOMAIN defense_table :
            LET e == defense_table[team]
                s == e.score_0_100
            IN  /\ IsNum(s)
                /\ 0 <= s.n /\ s.n <= 100 * s.d
                /\ e.tier \in {"green", "yellow", "red"}
                /\ (e.tier = "red") <=> (s.n >= 66 * s.d)
                /\ (e.tier = "yellow") <=> (s.n >= 33 * s.d /\ s.n < 66 * s.d)
                /\ (e.tier = "green") <=> (s.n < 33 * s.d)

\* A table with a team of score exactly 66 (red) and the toughest at 100.
C1_Witness ==
    /\ def_pc = "built"
    /\ \E a, b \in DOMAIN defense_table :
        /\ defense_table[a].score_0_100 = Int2(66)
        /\ defense_table[a].tier = "red"
        /\ defense_table[b].score_0_100 = Int2(100)

\* C8 as stated: for every list of games the opponent map is bidirectional,
\* maps no team to itself, and has no entry for a team that is in no game.
TeamsInGames == UNION {{games_today[i].home, games_today[i].away} :
                       i \in 1..Len(games_today)}

Bidirectional(m) == \A a \in DOMAIN m : m[a] \in DOMAIN m /\ m[m[a]] = a
NoSelfOpponent(m) == \A a \in DOMAIN m : m[a] # a
OnlyTeamsInGames(m) == DOMAIN m \subseteq TeamsInGames

OppBuilt == opp_pc \in {"root", "sradar", "scripts"} /\ ~opponent_map.raised

C8_AnyGames ==
    OppBuilt =>
        /\ Bidirectional(opponent_map.map)
        /\ NoSelfOpponent(opponent_map.map)
        /\ OnlyTeamsInGames(opponent_map.map)

\* A slate in which every game has two different team codes and no team plays twice.
ValidSlate ==
    /\ \A i \in 1..Len(games_today) :
          /\ games_today[i].home \in OppTeams
          /\ games_today[i].away \in OppTeams
          /\ games_today[i].home # games_today[i].away
    /\ \A i, j \in 1..Len(games_today) :
          i # j => {games_today[i].home, games_today[i].away}
                   \cap {games_today[j].home, games_today[j].away} = {}

\* C8, amended: for every list of games a team that is in no game has no
\* entry; when every game has two different teams and no team plays twice the
\* map is bidirectional, maps no team to itself, and has an entry for
\* exactly the teams that play.
C8_ValidSlate ==
    OppBuilt =>
        /\ OnlyTeamsInGames(opponent_map.map)
        /\ ValidSlate =>
              /\ Bidirectional(opponent_map.map)
              /\ NoSelfOpponent(opponent_map.map)
              /\ DOMAIN opponent_map.map = TeamsInGames

\* Two games between four teams, mapped by the scoring builder's loop.
C8_Witness ==
    /\ opp_pc = "scripts"
    /\ ~opponent_map.raised
    /\ ValidSlate
    /\ Len(games_today) = 2
    /\ Cardinality(DOMAIN opponent_map.map) = 4

ScoredRecord == sc_pc = "scored" /\ ~sc_out.raised

\* C2 as stated: the rec_tag of every record written follows from its
\* confidence by the threshold table, the records of players missing from the
\* season-stat source included.
TagOfTable(confidence) ==
    CASE confidence >= 80 -> "AUTO-GREEN"
      [] confidence >= 60 /\ confidence < 80 -> "Value Play"
      [] confidence >= 40 /\ confidence < 60 -> "Volatile"
      [] confidence < 40 -> "Avoid"

C2_EveryRecord ==
    ScoredRecord => sc_out.record.rec_tag = TagOfTable(sc_out.record.confidence)

\* C2, amended: the rec_tag of the record of a player found in the
\* season-stat source follows from its confidence by the threshold table;
\* the record of a player missing from it has confidence 50 and rec_tag
\* "Unknown".
C2_FoundPlayers ==
    ScoredRecord =>
        IF sc_in.season_raw # <<>>
        THEN sc_out.record.rec_tag = TagOfTable(sc_out.record.confidence)
        ELSE sc_out.record.confidence = 50 /\ sc_out.record.rec_tag = "Unknown"

\* A found player whose confidence is exactly 80, tagged AUTO-GREEN.
C2_Witness ==
    /\ ScoredRecord
    /\ sc_in.season_raw # <<>>
    /\ sc_out.record.confidence = 80
    /\ sc_out.record.rec_tag = "AUTO-GREEN"

InUnit(v) == IsNum(v) /\ RLe(Zero, v) /\ RLe(v, One)

WindowDone == wn_pc = "done" /\ ~wn_out.raised /\ wn_out.form.last5 # <<>>

StatKeys == {"Points", "Rebounds", "Assists"}

ConsOf(form, key) ==
    CASE key = "Points" -> form.cons_pts
      [] key = "Rebounds" -> form.cons_reb
      [] key = "Assists" -> form.cons_ast

Constant(vals) == \A i, j \in 1..Len(vals) : vals[i] = vals[j]

\* C5 as stated: for every non-empty recent window each consistency score
\* is in [0,1], and a window whose values are all equal yields exactly 1.
C5_ConstantIsOne ==
    WindowDone =>
        \A key \in StatKeys :
            LET vals == stat_values(wn_out.form.last5, key)
                c == ConsOf(wn_out.form, key)
            IN  InUnit(c) /\ (Constant(vals) => c = One)

\* C5, amended: for every non-empty recent window each consistency score is
\* in [0,1]; a window whose values are all equal and positive yields exactly
\* 1, and a window whose values are all zero (mean not above 0) yields 0.5.
C5_PositiveConstant ==
    WindowDone =>
        \A key \in StatKeys :
            LET vals == stat_values(wn_out.form.last5, key)
                c == ConsOf(wn_out.form, key)
            IN  /\ InUnit(c)
                /\ Constant(vals) =>
                      c = IF RGt(vals[1], Zero) THEN One ELSE Half

\* Six logs of which the last five are the window: its points are all 10
\* (consistency 1) and its assists all 0 (consistency 0.5).
C5_Witness ==
    /\ WindowDone
    /\ Len(wn_in) = 6
    /\ Len(wn_out.form.last5) = 5
    /\ Constant(stat_values(wn_out.form.last5, "Points"))
    /\ wn_out.form.cons_pts = One
    /\ Constant(stat_values(wn_out.form.last5, "Assists"))
    /\ wn_out.form.cons_ast = Half

\* The player's own season row and game logs hold numbers wherever the
\* loop body computes with them.
PlayerDataNumeric ==
    /\ sc_in.season_raw # <<>> =>
          LET sr == sc_in.season_raw[1]
          IN  \A v \in {sr.Games, sr.Points, sr.Rebounds, sr.Assists, sr.Minutes,
                         sr.Steals, sr.BlockedShots, sr.Turnovers, sr.UsageRate} :
                  v.k \in {"num", "absent"}
    /\ \A i \in 1..Len(sc_in.logs) :
          \A v \in {sc_in.logs[i].Points, sc_in.logs[i].Rebounds,
                     sc_in.logs[i].Assists} : v.k \in {"num", "absent"}

\* C9 as stated: for every player the loop processes smi is in [0,1],
\* whatever the opponent inputs: rank 1, 30 or beyond 30, no opponent, an
\* opponent the standings do not list, a row with null or missing PointsFor
\* or Percentage.
C9_SmiInUnit ==
    (sc_pc = "scored" /\ PlayerDataNumeric) =>
        /\ ~sc_out.raised
        /\ InUnit(sc_out.record.smi)

FoundRecord == ScoredRecord /\ sc_in.season_raw # <<>>

Known(v) == v.k \notin {"absent", "none"}

\* 1 - opponent win pct, the pct being 0.5 when there is no opponent row
WinOfClaim == RSub(One, get(sc_in.matchup.opp_rec.pct, Half))

\* clamp(pf / avg, 0.5, 1.5) - 0.5 for opponent points-for pf and league
\* average avg
PaceRatio(pf, avg) == RSub(RMax(Half, RMin(Rat(3, 2), RDiv(pf, avg))), Half)

SmiOfClaim(def, pace, win) ==
    RMax(Zero, RMin(One, RAdd(RAdd(RMul(Rat(4, 10), def), RMul(Rat(3, 10), pace)),
                              RMul(Rat(3, 10), win))))

\* The example of the specification: 10 games, 250 points, opponent of rank
\* 5 with win pct 0.7.
ExampleInput ==
    /\ sc_in.season_raw # <<>>
    /\ sc_in.season_raw[1].Games = Int2(10)
    /\ sc_in.season_raw[1].Points = Int2(250)
    /\ sc_in.matchup.dr = Int2(5)
    /\ sc_in.matchup.opp_rec.pct = Rat(7, 10)

ExampleOutput ==
    /\ sc_out.record.pts = Int2(25)
    /\ sc_out.locals.def_component = Rat(4, 29)
    /\ sc_out.locals.win_component = Rat(3, 10)

\* C10 as stated: smi = clamp(0.4 def + 0.3 pace + 0.3 win, 0, 1) with win
\* = 1 - opponent win pct and pace = clamp(pf / avg, 0.5, 1.5) - 0.5, pace
\* being 0.5 when pf or avg is missing; the example gives pts 25, def 4/29
\* and win 0.3.
C10_MissingIsNeutral ==
    FoundRecord =>
        LET pf == sc_in.matchup.opp_rec.pf
            avg == sc_in.matchup.avg_pf
            pace == IF Known(pf) /\ Known(avg) /\ avg.n # 0
                    THEN PaceRatio(pf, avg) ELSE Half
        IN  /\ sc_out.locals.win_component = WinOfClaim
            /\ sc_out.locals.pace_component = pace
            /\ sc_out.record.smi =
                  SmiOfClaim(sc_out.locals.def_component, pace, WinOfClaim)
            /\ ExampleInput => ExampleOutput

\* C10, amended: as stated, with pace = 0.5 when the opponent points-for or
\* the league average is missing, null or zero.
C10_ZeroIsNeutral ==
    FoundRecord =>
        LET pf == sc_in.matchup.opp_rec.pf
            avg == sc_in.matchup.avg_pf
            pace == IF Known(pf) /\ pf.n # 0 /\ Known(avg) /\ avg.n # 0
                    THEN PaceRatio(pf, avg) ELSE Half
        IN  /\ sc_out.locals.win_component = WinOfClaim
            /\ sc_out.locals.pace_component = pace
            /\ sc_out.record.smi =
                  SmiOfClaim(sc_out.locals.def_component, pace, WinOfClaim)
            /\ ExampleInput => ExampleOutput

\* The example of the specification, scored: smi = 0.4 * 4/29 + 0.3 * 0.5
\* + 0.3 * 0.3 with the opponent at the league average of points-for.
C10_Witness ==
    /\ FoundRecord
    /\ ExampleInput
    /\ ExampleOutput
    /\ sc_in.matchup.opp_rec.pf = Int2(100)
    /\ sc_out.locals.pace_component = Half
    /\ sc_out.record.smi = Rat(214, 725)

\* C3 as stated: within one run of the scoring builder every record of the
\* output map has the same set of keys, the record of a player missing from
\* the season-stat source included.
C3_SameKeys ==
    builder = "scripts" =>
        \A k \in 1..Len(player_stats_json) :
            \A a, b \in DOMAIN player_stats_json[k] :
                DOMAIN player_stats_json[k][a] = DOMAIN player_stats_json[k][b]

\* The last pass of the scoring builder's loop scored a player the feed has.
ScoredPass == builder = "scripts" /\ last_pass.locals.scored

\* The opponent of the player of the last pass, "<null>" when there is none
OppOfPass == team_get(lookups.opponents, last_pass.entry.team_code)

\* The place of row i of the standings in the order of PointsAgainst (999
\* when absent), rows of equal value staying in the order of the standings
PlaceOfRow(i) ==
    1 + Cardinality({j \in 1..Len(standings) :
                        \/ RLt(pa_key(standings[j]), pa_key(standings[i]))
                        \/ pa_key(standings[j]) = pa_key(standings[i]) /\ j < i})

RankKnown ==
    ~falsy_team(OppOfPass) /\ \E i \in 1..Len(standings) : standings[i].Key = OppOfPass

\* The defensive rank of the opponent: the last place of a row of its code
RankOfOpp ==
    CHOOSE r \in 1..Len(standings) :
        /\ \E i \in 1..Len(standings) :
              standings[i].Key = OppOfPass /\ PlaceOfRow(i) = r
        /\ \A i \in 1..Len(standings) :
              standings[i].Key = OppOfPass => PlaceOfRow(i) <= r

C6_RunCompletes == builder = "scripts" => run_pc # "failed"

\* The players of the rosters
RosterNames ==
    UNION {{rosters[i].players[j] : j \in 1..Len(rosters[i].players)} :
           i \in 1..Len(rosters)}

\* The players of the roster teams that play today
NamesToday ==
    UNION {{rosters[i].players[j] : j \in 1..Len(rosters[i].players)} :
           i \in {k \in 1..Len(rosters) :
                    rosters[k].team \in teams_today_of(games_today)}}

WrittenOnceAfterLoop ==
    /\ Len(player_stats_json) <= 1
    /\ Len(player_stats_json) = 1 <=> run_pc = "done"
    /\ run_pc = "done" => todo = <<>>

\* C7 as stated: in every run of a builder the output file is written
\* once, after the loop over the roster players has finished, with a record
\* for every player of every roster team, or it is not written at all.
C7_EveryRosterPlayer ==
    /\ WrittenOnceAfterLoop
    /\ run_pc = "done" => RosterNames \subseteq DOMAIN player_stats_json[1]

\* C7, amended: in every run the output file is written once, after the
\* loop has finished, or not at all; the file of the scoring builder and of
\* the root builder has a record for exactly the players of the roster teams,
\* the file of the BallDontLie builder for exactly the players of the roster
\* teams that play today (none when there is no game today).
C7_PerBuilder ==
    /\ WrittenOnceAfterLoop
    /\ run_pc = "done" =>
          DOMAIN player_stats_json[1] =
             IF builder = "bdl" THEN NamesToday ELSE RosterNames

\* A run of the scoring builder that wrote the records of three players of
\* two teams, one of them of a team that does not play today.
C7_Witness ==
    /\ builder = "scripts"
    /\ run_pc = "done"
    /\ Len(player_stats_json) = 1
    /\ DOMAIN player_stats_json[1] = {"A", "B", "C"}
    /\ NamesToday # RosterNames

\* C11: the confidence of every record built is an integer in [0,100],
\* whatever the usage, minutes, smi, trend and consistency it is computed
\* from, and it is 50 for a player missing from the season-stat source.
C11_ConfidenceInRange ==
    ScoredRecord =>
        /\ sc_out.record.confidence \in 0..100
        /\ sc_in.season_raw = <<>> => sc_out.record.confidence = 50
        /\ sc_out.locals.scored =>
              sc_out.record.confidence = sc_out.locals.confidence_raw

\* A found player with every penalty (smi at most 0.35, points trending
\* down, consistency at most 0.4): confidence 30, the lowest the weights
\* allow.
C11_Witness ==
    /\ FoundRecord
    /\ sc_out.record.trend_pts = "down"
    /\ RLe(sc_out.record.smi, Rat(35, 100))
    /\ RLe(sc_out.locals.avg_cons, Rat(4, 10))
    /\ sc_out.record.confidence = 30

\* The ratio (recent - season) / season of a labelled pair
TrendRatio == RDiv(RSub(tr_in.last5_val, tr_in.season_val), tr_in.season_val)

\* C12: for a season average above 0 trend_label is "up" iff (recent -
\* season) / season > 0.15, "down" iff that ratio < -0.15 and "flat"
\* otherwise, a ratio of exactly 0.15 or -0.15 included; for a season
\* average of 0 or less it is "flat".
C12_TrendThresholds ==
    tr_pc = "labelled" =>
        IF RGt(tr_in.season_val, Zero)
        THEN /\ tr_out = "up" <=> RGt(TrendRatio, Rat(15, 100))
             /\ tr_out = "down" <=> RLt(TrendRatio, Rat(-15, 100))
             /\ tr_out = "flat" <=>
                   (RLe(TrendRatio, Rat(15, 100)) /\ RGe(TrendRatio, Rat(-15, 100)))
        ELSE tr_out = "flat"

\* 23 against a season average of 20: the ratio is exactly 0.15, the label
\* "flat".
C12_Witness ==
    /\ tr_pc = "labelled"
    /\ tr_in.season_val = Int2(20)
    /\ tr_in.last5_val = Int2(23)
    /\ TrendRatio = Rat(15, 100)
    /\ tr_out = "flat"

\* The season rows by player as the builder of the run looks them up
SourceOfRun ==
    IF builder = "root" THEN lookups.player_lookup ELSE lookups.season_by_name

\* The player is not in the season-stat source, or is with zero games
NoGames(name) ==
    \/ name \notin DOMAIN SourceOfRun
    \/ get(SourceOfRun[name].Games, Zero) = Zero

RateKeys ==
    IF builder = "root"
    THEN {"min", "pts", "reb", "ast", "stl", "blk", "tov", "fg3a", "fg3_pct",
          "fga", "fg_pct", "fta", "ft_pct", "usage"}
    ELSE {"min", "pts", "reb", "ast", "stl", "blk", "tov", "usage"}

\* C13: after a completed run of the scoring builder or of the root builder
\* every player of every roster team is a key of the output map, and a
\* player absent from the season-stat source or with zero games has a record
\* with games 0 and every rate stat 0.
C13_EveryPlayerHasRecord ==
    (run_pc = "done" /\ builder \in {"scripts", "root"}) =>
        \A name \in RosterNames :
            /\ name \in DOMAIN player_stats_json[1]
            /\ NoGames(name) =>
                  /\ player_stats_json[1][name].games = Zero
                  /\ \A k \in RateKeys : player_stats_json[1][name][k] = Zero

\* A run of the scoring builder with A in the source with zero games and C
\* not in the source: both have a record with games 0.
C13_Witness ==
    /\ run_pc = "done"
    /\ builder = "scripts"
    /\ "A" \in DOMAIN SourceOfRun
    /\ SourceOfRun["A"].Games = Zero
    /\ "C" \in RosterNames
    /\ "C" \notin DOMAIN SourceOfRun
    /\ player_stats_json[1]["A"].games = Zero
    /\ player_stats_json[1]["C"].games = Zero

\* The matchup fields of a record of the scoring builder, opponent and smi
\* apart
MatchupKeys ==
    {"def_rank", "opp_record", "opp_win_pct", "opp_streak", "opp_points_for",
     "opp_points_against", "opp_conf_rank", "opp_div_rank"}

\* C14: the record of a player whose team has no game on the date of the
\* run has a null opponent and null or neutral matchup fields: def_rank and
\* the opp_ fields are null and smi is exactly 0.5 (scoring builder),
\* opponent_team, opponent_defense_score and opponent_defense_tier are null
\* (root builder).
C14_NoGameIsNeutral ==
    builder \in {"scripts", "root"} =>
        \A name \in DOMAIN final :
            LET rec == final[name]
            IN  rec.team \notin TeamsInGames =>
                  IF builder = "root"
                  THEN /\ rec.opponent_team = NullTeam
                       /\ rec.opponent_defense_score = None
                       /\ rec.opponent_defense_tier = NoTier
                  ELSE /\ rec.opponent = NullTeam
                       /\ rec.smi = Half
                       /\ \A k \in MatchupKeys \cap DOMAIN rec : rec[k] = None
                       /\ rec.rec_tag # "Unknown" => MatchupKeys \subseteq DOMAIN rec

\* BOS plays at MIA and NYK does not play: the record of C of NYK, a
\* player the source has, is written with a null opponent and smi 0.5, the
\* record of A of BOS with the opponent MIA.
C14_Witness ==
    /\ builder = "scripts"
    /\ run_pc = "done"
    /\ games_today = BosAtMia
    /\ "C" \in DOMAIN final
    /\ final["C"].team = "NYK"
    /\ final["C"].rec_tag # "Unknown"
    /\ final["C"].opponent = NullTeam
    /\ final["C"].smi = Half
    /\ final["A"].opponent = "MIA"

ShiftBuilt == def_pc = "built" /\ shifted_table # NotBuilt

\* |a - b| for two scores
ScoreGap(a, b) == IF RLe(a, b) THEN RSub(b, a) ELSE RSub(a, b)

MetricIdx == {i \in 1..Len(team_stats) : row_has_metric(team_stats[i])}

MetricOfRow(i) == to_float(raw_metric(team_stats[i]))

\* The place of row i among the rows that have a metric, in input order
PlaceInInput(i) == Cardinality({j \in MetricIdx : j <= i})

\* Row i is the last row of its team among the rows that have a metric
LastOfTeam(i) ==
    \A j \in MetricIdx : team_stats[j].Team = team_stats[i].Team => j <= i

\* C16: when every team has the same metric value the table is built
\* without error, every team has score_0_100 = 100 and tier red, and the
\* ranks 1..n follow the input order.
C16_EqualMetrics ==
    (/\ def_pc = "built"
     /\ MetricIdx # {}
     /\ \A i, j \in MetricIdx : MetricOfRow(i) = MetricOfRow(j)) =>
        /\ DOMAIN defense_table = {team_stats[i].Team : i \in MetricIdx}
        /\ \A i \in MetricIdx :
              LET e == defense_table[team_stats[i].Team]
              IN  /\ e.score_0_100 = Int2(100)
                  /\ e.tier = "red"
                  /\ LastOfTeam(i) => e.rank = PlaceInInput(i)

\* Three teams with the metric 134: all score 100, ranked in input order.
C16_Witness ==
    /\ def_pc = "built"
    /\ Len(team_stats) = 3
    /\ team_stats[1] = TeamRow("MIA", Int2(134), Absent)
    /\ team_stats[2] = TeamRow("NYK", Int2(134), Absent)
    /\ team_stats[3] = TeamRow("BOS", Int2(134), Absent)
    /\ defense_table["MIA"].rank = 1
    /\ defense_table["NYK"].rank = 2
    /\ defense_table["BOS"].rank = 3
    /\ \A team \in DOMAIN defense_table : defense_table[team].score_0_100 = Int2(100)

\* Every row has a team code and a parseable metric, and no two rows have
\* the same team code
DistinctParseable ==
    /\ MetricIdx = 1..Len(team_stats)
    /\ \A i, j \in 1..Len(team_stats) :
          i # j => team_stats[i].Team # team_stats[j].Team

RankOfRow(i) == defense_table[team_stats[i].Team].rank

\* C17: for rows with distinct team codes and parseable metrics each of
\* the ranks 1..n goes to exactly one team, a team with a strictly lower
\* metric has a strictly lower rank, and teams with equal metrics are
\* ranked in input order.
C17_RankBySortOrder ==
    (def_pc = "built" /\ DistinctParseable) =>
        /\ DOMAIN defense_table = {team_stats[i].Team : i \in 1..Len(team_stats)}
        /\ {RankOfRow(i) : i \in 1..Len(team_stats)} = 1..Len(team_stats)
        /\ \A i, j \in 1..Len(team_stats) :
              /\ RLt(MetricOfRow(i), MetricOfRow(j)) => RankOfRow(i) < RankOfRow(j)
              /\ (MetricOfRow(i) = MetricOfRow(j) /\ i < j) =>
                    RankOfRow(i) < RankOfRow(j)

\* Two teams with the metric 134 and a third, last in the input, with 100:
\* the third is ranked first, the other two in input order.
C17_Witness ==
    /\ def_pc = "built"
    /\ Len(team_stats) = 3
    /\ DistinctParseable
    /\ team_stats[1] = TeamRow("NYK", Int2(134), Absent)
    /\ team_stats[2] = TeamRow("BOS", Int2(134), Absent)
    /\ team_stats[3] = TeamRow("MIA", Int2(100), Absent)
    /\ defense_table["MIA"].rank = 1
    /\ defense_table["NYK"].rank = 2
    /\ defense_table["BOS"].rank = 3

\* A row with no team code, with neither opponent-points field, or with a
\* metric that is not a number
BadRow(t) ==
    \/ t.Team = NoTeam
    \/ /\ t.OpponentPointsPerGame.k \in {"none", "absent"}
       /\ t.PointsAllowedPerGame.k \in {"none", "absent"}
    \/ raw_metric(t).k = "str"

RootTablesBuilt == builder = "root" /\ lookups # NoLookups

\* C18: a team-stat row with no team code, with neither opponent-points
\* field or with a non-numeric metric adds no entry to the defense table and
\* raises nothing; a player whose opponent has no entry in the table gets a
\* null opponent_defense_score and opponent_defense_tier while opponent_team
\* keeps the code of the opponent; in every record the score is null iff
\* the tier is null.
C18_NoEntryIsNull ==
    RootTablesBuilt =>
        /\ run_pc # "failed"
        /\ \A team \in DOMAIN lookups.defense_table :
              \E i \in 1..Len(team_stats) :
                  team_stats[i].Team = team /\ ~BadRow(team_stats[i])
        /\ \A name \in DOMAIN final :
              LET rec == final[name]
              IN  /\ rec.opponent_team = team_get(lookups.opponent_map, rec.team)
                  /\ rec.opponent_team \notin DOMAIN lookups.defense_table =>
                        /\ rec.opponent_defense_score = None
                        /\ rec.opponent_defense_tier = NoTier
                  /\ rec.opponent_defense_score = None <=>
                        rec.opponent_defense_tier = NoTier

\* Of four team-stat rows only that of BOS has a team code and a metric;
\* BOS plays at MIA: the record of A of BOS has the opponent MIA and a null
\* score and tier, the record of C of MIA the score and tier of BOS.
C18_Witness ==
    /\ RootTablesBuilt
    /\ run_pc = "done"
    /\ Len(team_stats) = 4
    /\ \E i \in 1..Len(team_stats) : BadRow(team_stats[i])
    /\ DOMAIN lookups.defense_table = {"BOS"}
    /\ final["A"].opponent_team = "MIA"
    /\ final["A"].opponent_defense_score = None
    /\ final["A"].opponent_defense_tier = NoTier
    /\ final["C"].opponent_team = "BOS"
    /\ final["C"].opponent_defense_score = Int2(100)
    /\ final["C"].opponent_defense_tier = "red"

\* The logs supplied that are among the five of the latest dates, a log
\* without a date being older than every dated one
LatestIdx ==
    {i \in 1..Len(wn_in) :
        Cardinality({j \in 1..Len(wn_in) :
                        date_key(wn_in[j]).n > date_key(wn_in[i]).n}) < 5}

RECURSIVE SumOfStat(_, _)
SumOfStat(idx, key) ==
    IF idx = {} THEN Zero
    ELSE LET i == CHOOSE i \in idx : TRUE
         IN  RAdd(get(wn_in[i][key], Zero), SumOfStat(idx \ {i}, key))

\* The mean of a stat over the latest logs, an absent stat counting as 0
MeanOfLatest(key) == RDiv(SumOfStat(LatestIdx, key), Int2(Cardinality(LatestIdx)))

Min5(n) == IF n < 5 THEN n ELSE 5

\* C19: the last-5 average of a stat is the mean over the min(5, n) logs
\* of the latest dates, whatever the order in which the source supplies
\* the n logs; with no logs it is the season per-game average in the
\* scoring builder and 0 in the BallDontLie builder.
C19_MeanOfLatestFive ==
    (wn_pc \in {"done", "bdl"}) =>
        /\ ~wn_out.raised
        /\ IF wn_in # <<>>
           THEN /\ Cardinality(LatestIdx) = Min5(Len(wn_in))
                /\ Len(wn_out.form.last5) = Min5(Len(wn_in))
                /\ wn_out.form.l5_pts = MeanOfLatest("Points")
                /\ wn_out.form.l5_reb = MeanOfLatest("Rebounds")
                /\ wn_out.form.l5_ast = MeanOfLatest("Assists")
           ELSE IF wn_pc = "done"
                THEN /\ wn_out.form.l5_pts = WindowSeason.pts
                     /\ wn_out.form.l5_reb = WindowSeason.reb
                     /\ wn_out.form.l5_ast = WindowSeason.ast
                ELSE /\ wn_out.form.l5_pts = Zero
                     /\ wn_out.form.l5_reb = Zero
                     /\ wn_out.form.l5_ast = Zero

\* Six logs supplied out of order, the undated one among them: the scoring
\* builder averages the five dated ones, (30 + 10 + 0 + 20 + 25) / 5 = 17
\* points.
C19_Witness ==
    /\ wn_pc = "done"
    /\ ~wn_out.raised
    /\ Len(wn_in) = 6
    /\ wn_in[1].Date = Day(5)
    /\ wn_in[2].Date = Absent
    /\ wn_in[3].Date = Day(2)
    /\ wn_in[6].Date = Day(3)
    /\ wn_out.form.l5_pts = Int2(17)

\* The games of the day that reach the opponent map: all of them in the
\* scoring builder, those with both teams in the root builder
GamesMapped ==
    IF builder = "root"
    THEN {i \in 1..Len(games_today) :
            /\ games_today[i].home \notin {NullTeam, AbsentTeam, NoTeam}
            /\ games_today[i].away \notin {NullTeam, AbsentTeam, NoTeam}}
    ELSE 1..Len(games_today)

GamesOf(team) ==
    {i \in GamesMapped : team \in {games_today[i].home, games_today[i].away}}

\* The other team of the last game of the day the team plays
LastOpponent(team) ==
    LET i == CHOOSE i \in GamesOf(team) : \A j \in GamesOf(team) : j <= i
    IN  IF games_today[i].home = team THEN games_today[i].away
        ELSE games_today[i].home

OpponentMapOfRun ==
    IF builder = "scripts" THEN lookups.opponents ELSE lookups.opponent_map

\* Every team of every game has its entry
OpponentMapComplete ==
    /\ DOMAIN OpponentMapOfRun =
          UNION {{games_today[i].home, games_today[i].away} : i \in GamesMapped}
    /\ \A team \in DOMAIN OpponentMapOfRun :
          OpponentMapOfRun[team] = LastOpponent(team)

\* Every team of the standings has its rank (scoring builder), every team
\* of a row with a metric has its entry (root builder)
DefenseComplete ==
    IF builder = "scripts"
    THEN /\ DOMAIN lookups.def_rank =
               {standings[i].Key : i \in 1..Len(standings)}
         /\ \A key \in DOMAIN lookups.def_rank :
               lookups.def_rank[key] \in 1..Len(standings)
         /\ \A i, j \in 1..Len(standings) :
               standings[i].Key # standings[j].Key =>
                   lookups.def_rank[standings[i].Key] #
                       lookups.def_rank[standings[j].Key]
    ELSE /\ DOMAIN lookups.defense_table =
               {team_stats[i].Team :
                   i \in {j \in 1..Len(team_stats) : ~BadRow(team_stats[j])}}
         /\ \A team \in DOMAIN lookups.defense_table :
               lookups.defense_table[team].rank \in 1..Len(team_stats)

\* A per-player record exists, or the loop that creates them has begun
RecordsBegun == final # <<>> \/ run_pc \in {"loop", "done"}

TablesBeforeRecords ==
    (builder \in {"scripts", "root"} /\ RecordsBegun) =>
        (OpponentMapComplete /\ DefenseComplete)

TablesFrozen == RecordsBegun => lookups' = lookups

\* C20: in every run the defensive table (or the defensive-rank map) and the
\* opponent map are completely built before the first per-player record is
\* created, and neither is modified while or after the records are built.
C20_TablesBeforeRecords == [](TablesBeforeRecords) /\ [][TablesFrozen]_vars

\* A run of the scoring builder on a day of two games and standings of two
\* teams that has written its records.
C20_Witness ==
    /\ builder = "scripts"
    /\ run_pc = "done"
    /\ final # <<>>
    /\ Len(games_today) = 2
    /\ Cardinality(DOMAIN lookups.opponents) = 4
    /\ Cardinality(DOMAIN lookups.def_rank) = 2

\* C21: when rosters.json cannot be loaded or the fetch of the season
\* stats fails, the run ends with a failure and writes no output file; a
\* missing schedule.json alone is not fatal: the run goes on with an empty
\* opponent map and what it writes has a record for every roster player.
C21_FatalAndNonFatalLoads ==
    /\ (io.rosters_file # "ok" \/ io.player_fetch # "ok") =>
          /\ run_pc \in {"start", "failed"}
          /\ player_stats_json = <<>>
          /\ final = <<>>
    /\ (/\ io.schedule_file = "missing"
        /\ io.rosters_file = "ok"
        /\ io.player_fetch = "ok"
        /\ io.team_fetch = "ok") =>
          /\ run_pc # "failed"
          /\ run_pc \in {"loop", "done"} => lookups.opponent_map = EmptyMap
          /\ run_pc = "done" =>
                /\ player_stats_json = <<final>>
                /\ DOMAIN final = RosterNames
                /\ \A name \in DOMAIN final : final[name].opponent_team = NullTeam

\* A run without schedule.json, on a day with a game, that has written its
\* records.
C21_Witness ==
    /\ builder = "root"
    /\ io.schedule_file = "missing"
    /\ games_today = BosAtMia
    /\ run_pc = "done"
    /\ Len(player_stats_json) = 1
    /\ DOMAIN player_stats_json[1] = RosterNames

\* A run that could not load rosters.json has failed with nothing written.
C21_WitnessFatal ==
    /\ io.rosters_file = "missing"
    /\ run_pc = "failed"
    /\ player_stats_json = <<>>

\* The pass of the loop of the scoring builder that the run made last
LastPassScored ==
    /\ builder = "scripts"
    /\ last_pass # NoPass
    /\ last_pass.locals.scored

LastSeasonRow == lookups.season_by_name[last_pass.entry.name]

DivisorsOfRun ==
    IF builder = "scripts" /\ lookups # NoLookups
    THEN lookup_divisors(standings)
         \cup (IF LastPassScored
               THEN entry_divisors(last_pass.entry, lookups.season_by_name,
                                   lookups.logs_by_name, lookups.opponents,
                                   lookups.team_info, lookups.avg_pf)
               ELSE {})
    ELSE IF builder = "root" /\ lookups # NoLookups
              /\ extract_metrics(team_stats) # <<>>
    THEN LET metrics == sort_metrics(extract_metrics(team_stats))
         IN  {spread_of(min_val(metrics), max_val(metrics))}
    ELSE {}

\* C22: no division of the normalization and scoring steps has a zero
\* divisor: the per-game divisor is 1 when Games is 0, null or missing, the
\* spread of the defense metrics is at least 1e-6, also when all metrics
\* are equal, the divisor of the league average is 1 when the standings
\* are empty, and no pass of the loop divides by a mean or a season
\* average that is not > 0.
C22_NoZeroDivisor ==
    /\ \A den \in DivisorsOfRun : IsNum(den) => den.n # 0
    /\ LastPassScored =>
          /\ get(LastSeasonRow.Games, Zero) \in {Zero, None} =>
                last_pass.locals.g = One
          /\ \A key \in {"pts", "reb", "ast"} :
                LET rec == final[last_pass.entry.name]
                IN  /\ (last_pass.locals.last5 # <<>> /\ RLe(rec["l5_" \o key], Zero))
                        => rec["cons_" \o key] = Half
                    /\ RLe(rec[key], Zero) => rec["trend_" \o key] = "flat"
    /\ (builder = "scripts" /\ lookups # NoLookups /\ standings = <<>>) =>
          league_divisor(standings) = One
    /\ (builder = "root" /\ lookups # NoLookups) =>
          \A den \in DivisorsOfRun : RGe(den, SPREAD_FLOOR)

\* The scoring builder has scored a player with zero games, dividing the
\* totals by 1.
C22_Witness ==
    /\ LastPassScored
    /\ get(LastSeasonRow.Games, None) = Zero
    /\ last_pass.locals.g = One
    /\ One \in DivisorsOfRun
    /\ final[last_pass.entry.name].pts = Zero

\* The output keys of the rate stats and the totals they come from
RateTotals ==
    [pts |-> "Points", reb |-> "Rebounds", ast |-> "Assists", min |-> "Minutes",
     stl |-> "Steals", blk |-> "BlockedShots", tov |-> "Turnovers"]

\* The player has a record, and a season row with G >= 1 games and totals
HasTotals(name) ==
    /\ builder \in {"scripts", "root"}
    /\ lookups # NoLookups
    /\ name \in DOMAIN final
    /\ name \in DOMAIN SourceOfRun
    /\ IsNum(SourceOfRun[name].Games)
    /\ SourceOfRun[name].Games.d = 1
    /\ SourceOfRun[name].Games.n >= 1
    /\ \A key \in DOMAIN RateTotals : IsNum(SourceOfRun[name][RateTotals[key]])

PerGame(name, key) ==
    RDiv(SourceOfRun[name][RateTotals[key]], SourceOfRun[name].Games)

\* C23 as stated: in the scripts/ builder and in the root builder, for a
\* player with G >= 1 games and season totals, each of pts, reb, ast, min,
\* stl, blk and tov of the record is the total divided by G.
C23_PerGameRates ==
    \A name \in DOMAIN final :
        HasTotals(name) =>
            \A key \in DOMAIN RateTotals : final[name][key] = PerGame(name, key)

\* The part of C23 that the scripts/ builder satisfies
C23_ScriptsPerGame == builder = "scripts" => C23_PerGameRates

\* The lowest and the highest metric of the rows that have one
LowestMetric ==
    CHOOSE v \in {MetricOfRow(i) : i \in MetricIdx} :
        \A i \in MetricIdx : RLe(v, MetricOfRow(i))

HighestMetric ==
    CHOOSE v \in {MetricOfRow(i) : i \in MetricIdx} :
        \A i \in MetricIdx : RGe(v, MetricOfRow(i))

\* The table is built from rows of which two have different metrics
DifferentMetrics ==
    /\ def_pc = "built"
    /\ \E i, j \in MetricIdx :
          /\ team_stats[i].Team # team_stats[j].Team
          /\ MetricOfRow(i) # MetricOfRow(j)

\* Lowest metric 100, highest 0, non-increasing between, rank 1 first
ScoresSpanTheScale ==
    \A team \in DOMAIN defense_table :
        LET e == defense_table[team]
        IN  /\ e.def_metric = LowestMetric => e.score_0_100 = Int2(100)
            /\ e.def_metric = HighestMetric => e.score_0_100 = Zero
            /\ e.rank = 1 => e.score_0_100 = Int2(100)
            /\ \A other \in DOMAIN defense_table :
                  RLe(e.def_metric, defense_table[other].def_metric) =>
                      RGe(e.score_0_100, defense_table[other].score_0_100)

RateLimited(n) == responses[n].kind = "response" /\ responses[n].status = 429

\* C25: fetch_nba_json sends at most 3 requests and sends a further one
\* only after a 429 on the first or second attempt; it returns the parsed
\* body of the first response that is successful and not a 429, raises on
\* the first error status that is not a 429 and on a third 429, and never
\* returns without a value: the statement after the loop is not reached.
C25_RetriesOn429Only ==
    (http_pc # "off") =>
        /\ sent <= 3
        /\ \A n \in 1..(sent - 1) : RateLimited(n) /\ n <= 2
        /\ http_pc = "loop" => (attempt = sent /\ sent < 3)
        /\ http_pc = "returned" =>
              /\ responses[sent].kind = "response"
              /\ responses[sent].status < 400
              /\ outcome.value = responses[sent].body
              /\ outcome.value # NoValue
        /\ http_pc = "raised" =>
              \/ responses[sent].kind = "exception"
              \/ /\ responses[sent].status >= 400
                 /\ RateLimited(sent) => sent = 3
        /\ http_pc \in {"returned", "raised"} => ~outcome.after_loop

\* Two 429s, then a 200: the third request is sent and its body returned.
C25_Witness ==
    /\ http_pc = "returned"
    /\ sent = 3
    /\ RateLimited(1)
    /\ RateLimited(2)
    /\ responses[3].status = 200
    /\ outcome.value = <<"json", 3>>

\* Three 429s: the third raises, from inside the loop.
C25_WitnessThird429 ==
    /\ http_pc = "raised"
    /\ sent = 3
    /\ RateLimited(3)
    /\ ~outcome.after_loop

\* The n-th request met a 5xx, an error status or an exception
ServerError(n) == responses[n].kind = "response" /\ responses[n].status >= 500

RequestError(n) ==
    \/ responses[n].kind = "exception"
    \/ responses[n].status \in 400..499

C26_WitnessRuntimeError ==
    /\ http_pc = "raised"
    /\ ServerError(3)
    /\ outcome.after_loop

\* The players of the pages requested so far
PlayersSeen ==
    UNION {{pages[k].data[i] : i \in 1..Len(pages[k].data)} : k \in 1..requested}

\* C27: for pages that end with an empty page or a page without
\* next_page, fetch_rosters_from_bdl comes to its return, and the map it
\* returns has exactly the 30 codes of NBA_TEAMS as keys; each list is
\* sorted without a duplicate and holds the non-empty full names of the
\* players seen whose team abbreviation is the key, each once.
C27_RostersOfThirtyTeams ==
    /\ pg_pc = "loop" => requested < Len(pages)
    /\ pg_pc = "returned" =>
          /\ DOMAIN bdl_rosters = NBA_TEAMS
          /\ Cardinality(DOMAIN bdl_rosters) = 30
          /\ \A abbr \in NBA_TEAMS :
                LET list == bdl_rosters[abbr]
                IN  /\ \A i \in 1..(Len(list) - 1) : str_lt(list[i], list[i + 1])
                    /\ {list[i] : i \in 1..Len(list)} =
                          {full_name_of(p) : p \in {q \in PlayersSeen : q.team = abbr}}
                              \ {<<>>}

\* Player A C of BOS is on three pages, once with blanks around the
\* names; BOS lists A B before A C, each once.
C27_Witness ==
    /\ pg_pc = "returned"
    /\ requested = 3
    /\ pages[1].next_page = Int2(2)
    /\ pages[2].next_page = Int2(3)
    /\ pages[3].next_page = None
    /\ bdl_rosters["BOS"] = << <<"A", " ", "B">>, <<"A", " ", "C">> >>
    /\ bdl_rosters["LAL"] = << <<"A", " ", "C">> >>
    /\ bdl_rosters["ATL"] = <<>>

\* The rows of the player that have a team cell and a parseable usage
UsageIdx(rows, name) ==
    {i \in 1..Len(rows) :
        /\ ~rows[i].thead
        /\ rows[i].player = name
        /\ rows[i].team # AbsentTeam
        /\ rows[i].usg.k = "num"}

TotIdx(rows, name) == {i \in UsageIdx(rows, name) : rows[i].team = "TOT"}

\* The usage of the TOT row when there is one with a usage, otherwise
\* that of the first other row with a usage
UsageOfClaim(rows, name) ==
    IF TotIdx(rows, name) # {}
    THEN rows[CHOOSE i \in TotIdx(rows, name) :
                 \A j \in TotIdx(rows, name) : j <= i].usg
    ELSE rows[CHOOSE i \in UsageIdx(rows, name) :
                 \A j \in UsageIdx(rows, name) : i <= j].usg

UsageAsClaimed(rows, out) ==
    /\ DOMAIN out = {name \in {"A", "B"} : UsageIdx(rows, name) # {}}
    /\ \A name \in DOMAIN out : out[name] = UsageOfClaim(rows, name)

\* C28 as stated: parse_advanced_usage gives the same result for every
\* order of the rows, the usage of a player being that of the TOT row
\* when a TOT row with a parseable usage exists and otherwise that of the
\* first non-TOT row with a parseable usage.
C28_SameForEveryOrder ==
    us_pc = "parsed" =>
        /\ UsageAsClaimed(us_rows, us_out.rows)
        /\ us_out.rows = us_out.reordered

\* C28, amended: in each order the usage is that of the TOT row, or
\* without one that of the first non-TOT row with a usage; two orders
\* give a player the same usage when the player has a TOT row with a
\* usage or when all the player's rows with a usage have the same usage.
C28_SameWithTotRow ==
    us_pc = "parsed" =>
        /\ UsageAsClaimed(us_rows, us_out.rows)
        /\ UsageAsClaimed(us_reordered, us_out.reordered)
        /\ DOMAIN us_out.rows = DOMAIN us_out.reordered
        /\ \A name \in DOMAIN us_out.rows :
              (\/ TotIdx(us_rows, name) # {}
               \/ \A i, j \in UsageIdx(us_rows, name) :
                     us_rows[i].usg = us_rows[j].usg)
              => us_out.rows[name] = us_out.reordered[name]

\* Player A with rows LAL 20, TOT 30, BOS 25, and the rows in the order
\* BOS, LAL, TOT: 30 both times.
C28_Witness ==
    /\ us_pc = "parsed"
    /\ Len(us_rows) = 3
    /\ us_rows[1] = UsageRow(FALSE, "A", "LAL", Int2(20))
    /\ us_rows[2] = UsageRow(FALSE, "A", "TOT", Int2(30))
    /\ us_rows[3] = UsageRow(FALSE, "A", "BOS", Int2(25))
    /\ us_reordered[1] = us_rows[3]
    /\ us_reordered[3] = us_rows[2]
    /\ us_out.rows["A"] = Int2(30)
    /\ us_out.reordered["A"] = Int2(30)

\* C29: for every player the scoring builder scores, the confidence
\* before the clamp is between 30 and 99, so the clamp to [0,100] leaves it
\* as it is and no record of a scored player has a confidence below 30 or
\* of 100.
C29_ClampNeverActs ==
    (ScoredRecord /\ sc_out.locals.scored) =>
        /\ sc_out.locals.confidence_raw \in 30..99
        /\ confidence_of(sc_out.locals.confidence_raw) = sc_out.locals.confidence_raw
        /\ sc_out.record.confidence >= 30
        /\ sc_out.record.confidence # 100

\* A found player with every bonus (usage at least 28, 32 minutes, smi at
\* least 0.7, points trending up, consistency at least 0.75): confidence
\* 99, the highest the weights allow.
C29_Witness ==
    /\ FoundRecord
    /\ sc_out.locals.scored
    /\ sc_out.record.trend_pts = "up"
    /\ RGe(sc_out.record.smi, Rat(7, 10))
    /\ RGe(sc_out.locals.avg_cons, Rat(75, 100))
    /\ sc_out.locals.confidence_raw = 99
    /\ sc_out.record.confidence = 99

\* The internal id of a written game: "internal_id" in the Sportradar
\* file, "game_id" in the NBA.com file
IdOfGame(n) ==
    IF sch_pc = "sportradar" THEN schedule_master[n].internal_id
    ELSE schedule_master[n].game_id

\* C30: every game written to schedule_master.json has an internal id
\* different from that of every other game of the file, by either builder
\* and for any lists of games.
C30_IdsDiffer ==
    (sch_pc \in {"sportradar", "nba"}) =>
        \A m, n \in 1..Len(schedule_master) : IdOfGame(m) = IdOfGame(n) => m = n

\* What does hold for the Sportradar builder: within one list, two games
\* next to each other in the output never share an id.
C30_NeighboursDiffer ==
    (sch_pc = "sportradar") =>
        \A n \in 1..(Len(normalize_games(raw_schedule.reg)) - 1) :
            schedule_master[n].internal_id # schedule_master[n + 1].internal_id


=============================================================================
